---- MODULE Spec2Model ----
(***************************************************************************)
(* A model of the MediaTek Mali GPU governor: the FrequencyManager         *)
(* (src/src/model/frequency_manager.rs) and the load monitor               *)
(* (src/src/datasource/load_monitor.rs).                                   *)
(*                                                                         *)
(* Four specifications share the module's variables:                       *)
(*   SpecWrite  the FrequencyManager: gen_cur_volt and write_freq          *)
(*   SpecLoad   the load monitor: get_gpu_load and get_gpu_current_freq    *)
(*   SpecTable  the FrequencyManager's table and its lookups               *)
(*   SpecStart  main (src/src/main.rs): startup up to the governor loop    *)
(* Each keeps the variables it does not model at their initial value.      *)
(***************************************************************************)
EXTENDS Integers, Sequences, FiniteSets, TLC

VARIABLES
    \* FrequencyManager (frequency_manager.rs:10-29)
    config_list,          \* Vec<i64>, the frequency table
    freq_volt,            \* HashMap<i64,i64>, a function on the keys present
    def_volt,             \* HashMap<i64,i64>
    cur_freq,
    cur_freq_idx,
    cur_volt,
    gpuv2,
    v2_supported_freqs,   \* Vec<i64>
    \* the control files of the two driver generations
    exists,               \* control path -> the file exists
    wcall,                \* the last write_freq call: inputs, mode, writes, result,
                          \* where it is, and the writes of other threads during it
    look,                 \* the last table lookup: function, argument, result
    \* load monitor
    status,               \* path -> availability flag (get_status / write_status)
    prev,                 \* PREV_BUSY, PREV_IDLE, PREV_PROTM
    pc,                   \* the function of the chain that runs next, or "idle"
    hand,                 \* the read before cur in the same call
    cur,                  \* the last read of the call: source, outcome, value
    rd,                   \* the paths the last step opened or read, in order
    ret,                  \* the result of the last completed call
    \* main
    boot,                 \* main's position, its environment and what it has started
    \* log level manager
    llm,                  \* LogLevelManager, log's max level and the threads that use it
    \* governor loop
    gov                   \* the strategy, the hysteresis state and the last sample

fmvars == <<config_list, freq_volt, def_volt, cur_freq, cur_freq_idx, cur_volt,
            gpuv2, v2_supported_freqs, exists, wcall, look>>
lmvars == <<status, prev, pc, hand, cur, rd, ret>>
vars == <<config_list, freq_volt, def_volt, cur_freq, cur_freq_idx, cur_volt,
          gpuv2, v2_supported_freqs, exists, wcall, look,
          status, prev, pc, hand, cur, rd, ret, boot, llm, gov>>

(***************************************************************************)
(* Bounds of the model.                                                    *)
(***************************************************************************)
\* the most writes one write_freq call issues whose outcome is drawn freely
MaxWrites == 4
\* the most load-chain paths that utilization_init found readable
MaxAvailable == 3
\* the write_freq calls of other threads that write during one sleep of
\* write_normal_mode
MaxOtherCalls == 1
\* the callbacks add_callback has pushed, the one of LOG_LEVEL_MANAGER included
MaxCallbacks == 3

(***************************************************************************)
(* FrequencyManager                                                        *)
(***************************************************************************)
GPUFREQ_VOLT == "GPUFREQ_VOLT"
GPUFREQ_OPP == "GPUFREQ_OPP"
GPUFREQV2_VOLT == "GPUFREQV2_VOLT"
GPUFREQV2_OPP == "GPUFREQV2_OPP"
ControlPaths == {GPUFREQ_VOLT, GPUFREQ_OPP, GPUFREQV2_VOLT, GPUFREQV2_OPP}

\* i64::abs
Abs(x) == IF x < 0 THEN -x ELSE x

\* HashMap::get(&freq).unwrap_or(&0)
MapGet(m, k) == IF k \in DOMAIN m THEN m[k] ELSE 0

get_volt(freq) == MapGet(freq_volt, freq)

\* the loop of get_closest_v2_supported_freq from position i on
RECURSIVE ClosestLoop(_, _, _, _)
ClosestLoop(i, closest_freq, min_diff, target_freq) ==
    IF i > Len(v2_supported_freqs) THEN closest_freq
    ELSE LET freq == v2_supported_freqs[i]
             diff == Abs(target_freq - freq)
         IN IF diff < min_diff
            THEN ClosestLoop(i + 1, freq, diff, target_freq)
            ELSE ClosestLoop(i + 1, closest_freq, min_diff, target_freq)

\* the same loop with diff <= min_diff: among ties the last candidate wins
RECURSIVE ClosestLoopTiesLast(_, _, _, _)
ClosestLoopTiesLast(i, closest_freq, min_diff, target_freq) ==
    IF i > Len(v2_supported_freqs) THEN closest_freq
    ELSE LET freq == v2_supported_freqs[i]
             diff == Abs(target_freq - freq)
         IN IF diff <= min_diff
            THEN ClosestLoopTiesLast(i + 1, freq, diff, target_freq)
            ELSE ClosestLoopTiesLast(i + 1, closest_freq, min_diff, target_freq)

get_closest_v2_supported_freq_ties_last(target_freq) ==
    IF v2_supported_freqs = <<>> THEN target_freq
    ELSE ClosestLoopTiesLast(1, v2_supported_freqs[1],
                             Abs(target_freq - v2_supported_freqs[1]), target_freq)

get_closest_v2_supported_freq(target_freq) ==
    IF v2_supported_freqs = <<>> THEN target_freq
    ELSE ClosestLoop(1, v2_supported_freqs[1],
                     Abs(target_freq - v2_supported_freqs[1]), target_freq)

\* the value gen_cur_volt stores in cur_volt and returns
GenCurVolt ==
    LET freq_to_use == get_closest_v2_supported_freq(cur_freq)
        volt == get_volt(freq_to_use)
        dv == MapGet(def_volt, freq_to_use)
    IN IF volt = 0 /\ dv > 0 THEN dv ELSE volt

\* the outcomes of one write_file_safe call, a Result<usize>: Err, Ok(0), Ok(n > 0)
WriteOutcomes == {"err", "zero", "ok"}

\* i64::to_string and format!("{} {}", ..)
FreqToUse == IF gpuv2 THEN get_closest_v2_supported_freq(cur_freq) ELSE cur_freq
Content == ToString(FreqToUse)
VoltContent == ToString(FreqToUse) \o " " \o ToString(cur_volt)

\* write_file_safe(path, data, len) appended to the writes of the call; o[k] is
\* the outcome of the k-th write of the call
Wr(log, path, data, o) ==
    Append(log, [path |-> path, data |-> data, res |-> o[Len(log) + 1]])
\* the Result of the last write is Err
Failed(log) == log[Len(log)].res = "err"
\* result.is_err() || result.unwrap() == 0
ErrOrZero(log) == log[Len(log)].res \in {"err", "zero"}
Done(log) == [log |-> log, ret |-> IF Failed(log) THEN "err" ELSE "ok"]

\* write_idle_mode with the v1 sequence taken on both generations
write_idle_mode_v1_only(volt_path, opp_path, volt_reset, opp_reset_zero, o) ==
    LET w1 == Wr(<<>>, volt_path, volt_reset, o)
        w2 == Wr(w1, opp_path, opp_reset_zero, o)
    IN IF Failed(w1) THEN Done(w1) ELSE Done(w2)

\* write_idle_mode with the v2 sequence taken on both generations
write_idle_mode_v2_only(volt_path, opp_path, volt_reset, opp_reset_zero, o) ==
    LET w1 == Wr(<<>>, volt_path, volt_reset, o)
        w2 == Wr(w1, opp_path, "-1", o)
        w3 == Wr(w2, opp_path, opp_reset_zero, o)
    IN IF Failed(w1) THEN Done(w1)
       ELSE IF ErrOrZero(w2) THEN Done(w3)
       ELSE [log |-> w2, ret |-> "ok"]

write_idle_mode(volt_path, opp_path, volt_reset, opp_reset_zero, o) ==
    IF gpuv2
    THEN LET w1 == Wr(<<>>, volt_path, volt_reset, o)
             w2 == Wr(w1, opp_path, "-1", o)
             w3 == Wr(w2, opp_path, opp_reset_zero, o)
         IN IF Failed(w1) THEN Done(w1)
            ELSE IF ErrOrZero(w2) THEN Done(w3)
            ELSE [log |-> w2, ret |-> "ok"]
    ELSE LET w1 == Wr(<<>>, volt_path, volt_reset, o)
             w2 == Wr(w1, opp_path, opp_reset_zero, o)
         IN IF Failed(w1) THEN Done(w1) ELSE Done(w2)

write_dcs_mode(volt_path, opp_path, volt_reset, opp_reset_minus_one, opp_reset_zero, o) ==
    LET w1 == Wr(<<>>, volt_path, volt_reset, o)
        w2 == Wr(w1, opp_path, opp_reset_minus_one, o)
        w3 == Wr(w2, opp_path, opp_reset_zero, o)
    IN IF Failed(w1) THEN Done(w1)
       ELSE IF ErrOrZero(w2) THEN Done(w3)
       ELSE [log |-> w2, ret |-> "ok"]

write_no_volt_mode(volt_path, opp_path, volt_reset, content, o) ==
    LET w1 == Wr(<<>>, volt_path, volt_reset, o)
        w2 == Wr(w1, opp_path, content, o)
    IN IF Failed(w1) THEN Done(w1) ELSE Done(w2)

\* write_normal_mode with the v1 sequence taken on both generations (reset_m1 is
\* the parameter opp_reset_minus_one)
write_normal_mode_v1_only(volt_path, opp_path, volt_reset, reset_m1, opp_reset_zero, volt_content, o) ==
    LET w1 == Wr(<<>>, opp_path, opp_reset_zero, o)
        w2 == Wr(w1, volt_path, volt_content, o)
    IN IF Failed(w1) THEN Done(w1) ELSE Done(w2)

write_normal_mode(volt_path, opp_path, volt_reset, reset_m1, opp_reset_zero, volt_content, o) ==
    IF gpuv2
    THEN LET w1 == Wr(<<>>, volt_path, volt_reset, o)
             w2 == Wr(w1, opp_path, reset_m1, o)
             w3 == IF ErrOrZero(w2) THEN Wr(w2, opp_path, opp_reset_zero, o) ELSE w2
             w4 == Wr(w3, volt_path, volt_content, o)
         IN IF Failed(w1) THEN Done(w1)
            ELSE IF ErrOrZero(w2) /\ Failed(w3) THEN Done(w3)
            ELSE Done(w4)
    ELSE LET w1 == Wr(<<>>, opp_path, opp_reset_zero, o)
             w2 == Wr(w1, volt_path, volt_content, o)
         IN IF Failed(w1) THEN Done(w1) ELSE Done(w2)

\* WriteMode with the dcs test made before the is_idle test
\* the branch write_freq takes on a manager whose cur_freq_idx and cur_volt are idx
\* and volt: the fields are those of the clone the calling thread holds
WriteModeOf(need_dcs, is_idle, idx, volt) ==
    IF is_idle THEN "idle"
    ELSE IF need_dcs /\ gpuv2 /\ idx = 0 THEN "dcs"
    ELSE IF volt = 0 THEN "no-volt"
    ELSE "normal"

WriteMode_dcs_first(need_dcs, is_idle) ==
    IF need_dcs /\ gpuv2 /\ cur_freq_idx = 0 THEN "dcs"
    ELSE IF is_idle THEN "idle"
    ELSE IF cur_volt = 0 THEN "no-volt"
    ELSE "normal"

\* the branch write_freq takes once both control files exist; the name is the one
\* the branch logs ("Writing in ... mode")
WriteMode(need_dcs, is_idle) == WriteModeOf(need_dcs, is_idle, cur_freq_idx, cur_volt)

VoltPath == IF gpuv2 THEN GPUFREQV2_VOLT ELSE GPUFREQ_VOLT
OppPath == IF gpuv2 THEN GPUFREQV2_OPP ELSE GPUFREQ_OPP

\* the existence test with && in place of ||
ControlFileMissing_both == ~exists[VoltPath] /\ ~exists[OppPath]

\* !Path::new(volt_path).exists() || !Path::new(opp_path).exists()
ControlFileMissing == ~exists[VoltPath] \/ ~exists[OppPath]

\* write_freq(need_dcs, is_idle) with o the outcomes of its writes: the mode taken
\* ("none" on the early return), the writes issued and the Result
WriteFreqIn(mode, content, volt_content, need_dcs, is_idle, o) ==
    LET volt_reset == "0 0"
        opp_reset_minus_one == "-1"
        opp_reset_zero == "0"
        r == CASE mode = "idle" ->
                    write_idle_mode(VoltPath, OppPath, volt_reset, opp_reset_zero, o)
               [] mode = "dcs" ->
                    write_dcs_mode(VoltPath, OppPath, volt_reset, opp_reset_minus_one,
                                   opp_reset_zero, o)
               [] mode = "no-volt" ->
                    write_no_volt_mode(VoltPath, OppPath, volt_reset, content, o)
               [] OTHER ->
                    write_normal_mode(VoltPath, OppPath, volt_reset, opp_reset_minus_one,
                                      opp_reset_zero, volt_content, o)
    IN IF ControlFileMissing
       THEN [called |-> TRUE, need_dcs |-> need_dcs, is_idle |-> is_idle,
             mode |-> "none", log |-> <<>>, ret |-> "ok"]
       ELSE [called |-> TRUE, need_dcs |-> need_dcs, is_idle |-> is_idle,
             mode |-> mode, log |-> r.log, ret |-> r.ret]

\* write_freq on this manager: the mode and the payloads come from its own fields
WriteFreq(need_dcs, is_idle, o) ==
    WriteFreqIn(WriteMode(need_dcs, is_idle), Content, VoltContent, need_dcs, is_idle, o)

\* write_normal_mode sleeps 10 ms before the last write of the call: the v2 sequence
\* got as far as the "<freq> <volt>" write
SleepsBeforeLast(c) ==
    /\ c.mode = "normal" /\ gpuv2
    /\ Len(c.log) >= 3
    /\ c.log[Len(c.log)].path = VoltPath

\* the call c at its sleep (the writes before it issued, the one after it left in
\* rest) or returned
CallState(c) ==
    IF SleepsBeforeLast(c)
    THEN [called |-> TRUE, need_dcs |-> c.need_dcs, is_idle |-> c.is_idle,
          mode |-> c.mode, log |-> SubSeq(c.log, 1, Len(c.log) - 1), ret |-> "none",
          pc |-> "sleep", rest |-> <<c.log[Len(c.log)]>>, between |-> <<>>]
    ELSE [called |-> TRUE, need_dcs |-> c.need_dcs, is_idle |-> c.is_idle,
          mode |-> c.mode, log |-> c.log, ret |-> c.ret,
          pc |-> "done", rest |-> <<>>, between |-> <<>>]

NoCall == [called |-> FALSE, need_dcs |-> FALSE, is_idle |-> FALSE,
           mode |-> "none", log |-> <<>>, ret |-> "ok",
           pc |-> "done", rest |-> <<>>, between |-> <<>>]

(***************************************************************************)
(* Load monitor                                                            *)
(***************************************************************************)
MODULE_LOAD == "MODULE_LOAD"
MODULE_IDLE == "MODULE_IDLE"
KERNEL_LOAD == "KERNEL_LOAD"
KERNEL_D_LOAD == "KERNEL_D_LOAD"
KERNEL_DEBUG_LOAD == "KERNEL_DEBUG_LOAD"
PROC_MALI_LOAD == "PROC_MALI_LOAD"
PROC_MTK_LOAD == "PROC_MTK_LOAD"
GPU_FREQ_LOAD_PATH == "GPU_FREQ_LOAD_PATH"
DEBUG_DVFS_LOAD == "DEBUG_DVFS_LOAD"
DEBUG_DVFS_LOAD_OLD == "DEBUG_DVFS_LOAD_OLD"
GPU_CURRENT_FREQ_PATH == "GPU_CURRENT_FREQ_PATH"
GPU_DEBUG_CURRENT_FREQ_PATH == "GPU_DEBUG_CURRENT_FREQ_PATH"

\* the paths of the load chain, and the two v2 frequency-report paths
LoadPaths == {DEBUG_DVFS_LOAD, DEBUG_DVFS_LOAD_OLD, GPU_FREQ_LOAD_PATH, PROC_MTK_LOAD,
              PROC_MALI_LOAD, KERNEL_DEBUG_LOAD, KERNEL_D_LOAD, KERNEL_LOAD,
              MODULE_IDLE, MODULE_LOAD}
FreqPaths == {GPU_CURRENT_FREQ_PATH, GPU_DEBUG_CURRENT_FREQ_PATH}
Paths == LoadPaths \cup FreqPaths

\* the sources of the chain by priority, 1 the most preferred, with the function that
\* reads each and the paths it reads
Sources == 1..9
SrcPaths(s) ==
    CASE s = 1 -> {DEBUG_DVFS_LOAD, DEBUG_DVFS_LOAD_OLD}
      [] s = 2 -> {GPU_FREQ_LOAD_PATH}
      [] s = 3 -> {PROC_MTK_LOAD}
      [] s = 4 -> {PROC_MALI_LOAD}
      [] s = 5 -> {KERNEL_DEBUG_LOAD}
      [] s = 6 -> {KERNEL_D_LOAD}
      [] s = 7 -> {KERNEL_LOAD}
      [] s = 8 -> {MODULE_IDLE}
      [] s = 9 -> {MODULE_LOAD}
SrcFn(s) ==
    CASE s = 1 -> "debug_dvfs_load_func"
      [] s = 2 -> "gpufreq_load"
      [] s = 3 -> "mtk_load"
      [] s = 4 -> "mali_load"
      [] s = 5 -> "kernel_d_ged_load"
      [] s = 6 -> "kernel_debug_ged_load"
      [] s = 7 -> "kernel_ged_load"
      [] s = 8 -> "module_ged_idle"
      [] s = 9 -> "module_ged_load"

\* file_status: the availability flag of a path, and its update
get_status(path) == status[path]
write_status(st, path, v) == [st EXCEPT ![path] = v]
\* the flags after read_file(path, ..) returned Err: the path is marked unavailable
read_file_failed(st, path) == write_status(st, path, FALSE)

\* A file's text is a sequence of whitespace-separated tokens (or of lines of them); a
\* token is a decimal integer or something that str::parse rejects.
Num(v) == [num |-> TRUE, v |-> v]
Junk == [num |-> FALSE, v |-> 0]
\* buf.trim().parse::<i32>() succeeds: the text is one integer token
ParsesInt(buf) == Len(buf) = 1 /\ buf[1].num
\* parts.len() >= 3 and parts[2].parse::<i32>() succeeds
ThirdParses(buf) == Len(buf) >= 3 /\ buf[3].num

\* read_file's results: Err, or Ok(buf) for buf in S
Reads(S) == {[ok |-> FALSE, buf |-> <<>>]} \cup {[ok |-> TRUE, buf |-> b] : b \in S}

\* the values the files hold in the model
Vals == {0, 40, 100}
ModuleBufs == {<<Num(v)>> : v \in Vals} \cup {<<Junk>>}
KernelBufs == {<<Num(1), Num(2), Num(v)>> : v \in Vals}
                 \cup {<<Num(1), Num(2)>>, <<Num(1), Num(2), Junk>>}
\* the Mali and MTK proc files: the key ("=" or "ACTIVE=") is present or not, and
\* the text after it
KeyBufs == {[key |-> TRUE, rest |-> <<Num(v)>>] : v \in Vals}
              \cup {[key |-> FALSE, rest |-> <<Num(40)>>], [key |-> TRUE, rest |-> <<Junk>>]}
\* the lines of the gpufreq file: a line that failed to read, or a line that holds
\* "gpu_loading = " or not, with the text after it
GLine(key, tok) == [err |-> FALSE, key |-> key, rest |-> <<tok>>]
GLineErr == [err |-> TRUE, key |-> FALSE, rest |-> <<>>]
GpufreqFiles == {<<GLine(FALSE, Num(7)), GLine(TRUE, Num(v))>> : v \in Vals}
                   \cup {<<GLine(TRUE, Junk), GLine(TRUE, Num(40))>>,
                         <<GLine(FALSE, Num(7))>>, <<GLineErr, GLine(TRUE, Num(40))>>}
\* the busy/idle/protm counters of the precise source
\* (the last one, read after <<0, 0, 0>>, has total 1 and a quotient past i32)
Triplets == {<<100, 50, 0>>, <<150, 70, 10>>, <<100, 70, 0>>, <<100, 200, 0>>,
             <<42949674, -42949673, 0>>}
Header == <<Junk, Junk, Junk>>
PreciseBufs == {<<Header, <<Num(t[1]), Num(t[2]), Num(t[3])>>>> : t \in Triplets}
                  \cup {<<Header>>, <<Header, <<Num(1), Num(2)>>>>,
                        <<Header, <<Num(1), Junk, Num(3)>>>>}

\* an i64 cast to i32 keeps the low 32 bits: the identity on -2^31 .. 2^31 - 1, and
\* x modulo 2^32 brought into that range elsewhere
AsI32(x) ==
    IF -2147483647 - 1 <= x /\ x <= 2147483647 THEN x
    ELSE ((x + 2147483647 + 1) % (2 * 2147483647 + 2)) - 2147483647 - 1

\* ((n * 100) / total) as i32 for total > 0, the i64 product and quotient of the code
\* computed in pieces that fit the model's integers: with a = |n| = q * total + r the
\* quotient is 100 * q + (100 * r) / total, whose low 32 bits come from the 16-bit
\* halves of q; the division truncates toward zero, so a negative n negates the result
Times100DivAsI32(n, total) ==
    LET a == IF n < 0 THEN -n ELSE n
        q == a \div total
        r == a % total
        \* <<k * r \div total, k * r % total>> for 2k and for k + 1 from the pair
        \* for k, the remainders staying below total
        Twice(p) == IF p[2] >= total - p[2] THEN <<2 * p[1] + 1, p[2] - (total - p[2])>>
                    ELSE <<2 * p[1], 2 * p[2]>>
        Plus(p) == IF p[2] >= total - r THEN <<p[1] + 1, p[2] - (total - r)>>
                   ELSE <<p[1], p[2] + r>>
        \* 100 = ((((1 * 2 + 1) * 2 * 2 * 2) + 1) * 2 * 2)
        frac == Twice(Twice(Plus(Twice(Twice(Twice(Plus(Twice(<<0, r>>))))))))[1]
        m == (100 * (q \div 65536)) % 65536
        hi == IF m >= 32768 THEN (m - 65536) * 65536 ELSE m * 65536
        lo == 100 * (q % 65536) + frac
        mag == IF hi > 2147483647 - lo
               THEN (hi - 2147483647 - 1) + (lo - 2147483647 - 1)
               ELSE hi + lo
    IN IF n >= 0 THEN AsI32(mag)
       ELSE IF mag = -2147483647 - 1 THEN mag
       ELSE AsI32(-mag)

\* the load debug_dvfs_load_func computes from the counters read and the previous
\* ones when total > 0
PreciseLoad_no_protm(busy, idle, protm) ==
    LET diff_busy == busy - prev[1]
        diff_idle == idle - prev[2]
        diff_protm == protm - prev[3]
        total == diff_busy + diff_idle + diff_protm
        load == Times100DivAsI32(diff_busy, total)
    IN IF load < 0 THEN 0 ELSE load

PreciseLoad(busy, idle, protm) ==
    LET diff_busy == busy - prev[1]
        diff_idle == idle - prev[2]
        diff_protm == protm - prev[3]
        total == diff_busy + diff_idle + diff_protm
        load == Times100DivAsI32(diff_busy + diff_protm, total)
    IN IF load < 0 THEN 0 ELSE load

PreciseTotal(busy, idle, protm) ==
    (busy - prev[1]) + (idle - prev[2]) + (protm - prev[3])

\* no read yet in the call, and no result yet
NoRead == [src |-> 0, out |-> "none", val |-> 0, tok |-> <<>>]
NoRet == [fn |-> "none", kind |-> "none", val |-> 0, src |-> 0]

\* the step read source s with outcome out (and value val) from the integers tok
ReadTok(s, out, val, tok) ==
    hand' = cur /\ cur' = [src |-> s, out |-> out, val |-> val, tok |-> tok]
\* the same of a step whose integers are not looked at
Read(s, out, val) == ReadTok(s, out, val, <<>>)
\* the step found the source's flag false and read nothing
Skip == rd' = <<>> /\ UNCHANGED <<hand, cur, status>>
\* the call returns: Ok(val) computed at source s, or Err
ReturnOk(val, s) ==
    pc' = "idle" /\ ret' = [fn |-> "get_gpu_load", kind |-> "ok", val |-> val, src |-> s]
ReturnErr(s) ==
    pc' = "idle" /\ ret' = [fn |-> "get_gpu_load", kind |-> "err", val |-> 0, src |-> s]
\* the function tail-calls fn, whose result is its own
Call(fn) == pc' = fn /\ UNCHANGED ret

\* no table lookup made yet
NoLook == [fn |-> "none", arg |-> 0, res |-> 0, failed |-> FALSE]

\* main has not run
\* main, the log level manager or the governor loop is not part of the specification
NoBoot == [pc |-> "none"]

\* the inputs the model draws the FrequencyManager's fields from
Tables == {<<100, 200, 300>>}
VoltTabs == {(100 :> 0) @@ (200 :> 650) @@ (300 :> 700), (200 :> 650)}
DefVoltTabs == {(100 :> 600), <<>>}
V2Lists == {<<>>, <<200, 400>>}
IdxSet == {0, 1}

\* an i-th write's outcome matters only if the call gets that far: the outcomes past
\* the writes issued are fixed to "ok" so that one call is drawn once
Canonical(o, n) == \A k \in 1..MaxWrites : k > n => o[k] = "ok"

InitLM ==
    /\ status = [p \in Paths |-> FALSE]
    /\ prev = <<0, 0, 0>>
    /\ pc = "idle"
    /\ hand = NoRead
    /\ cur = NoRead
    /\ rd = <<>>
    /\ ret = NoRet
    /\ boot = NoBoot
    /\ llm = NoBoot
    /\ gov = NoBoot

InitWrite ==
    /\ config_list \in Tables
    /\ freq_volt \in VoltTabs
    /\ def_volt \in DefVoltTabs
    /\ cur_freq \in {100, 300}
    /\ cur_freq_idx \in IdxSet
    /\ cur_volt = 0
    /\ gpuv2 \in BOOLEAN
    /\ v2_supported_freqs \in V2Lists
    /\ exists \in [ControlPaths -> BOOLEAN]
    /\ wcall = NoCall
    /\ look = NoLook
    /\ InitLM

\* (&mut self: not while a write_freq call on the manager is asleep)
gen_cur_volt ==
    /\ wcall.pc = "done"
    /\ cur_volt' = GenCurVolt
    /\ wcall' = NoCall
    /\ UNCHANGED <<config_list, freq_volt, def_volt, cur_freq, cur_freq_idx, gpuv2,
                   v2_supported_freqs, exists, look>>
    /\ UNCHANGED <<lmvars, boot, llm, gov>>

\* write_freq up to its return, or up to the sleep of write_normal_mode
write_freq ==
    /\ wcall.pc = "done"
    /\ \E need_dcs \in BOOLEAN, is_idle \in BOOLEAN, o \in [1..MaxWrites -> WriteOutcomes] :
          LET c == WriteFreq(need_dcs, is_idle, o)
          IN /\ Canonical(o, Len(c.log))
             /\ wcall' = CallState(c)
    /\ UNCHANGED <<config_list, freq_volt, def_volt, cur_freq, cur_freq_idx, cur_volt,
                   gpuv2, v2_supported_freqs, exists, look>>
    /\ UNCHANGED <<lmvars, boot, llm, gov>>

\* frequency_manager.rs:253-254: the sleep ends, the "<freq> <volt>" write is issued
\* and its Result is the call's
write_freq_after_sleep ==
    /\ wcall.pc = "sleep"
    /\ wcall' = [wcall EXCEPT !.log = @ \o wcall.rest, !.rest = <<>>, !.pc = "done",
                              !.ret = IF wcall.rest[1].res = "err" THEN "err" ELSE "ok"]
    /\ UNCHANGED <<config_list, freq_volt, def_volt, cur_freq, cur_freq_idx, cur_volt,
                   gpuv2, v2_supported_freqs, exists, look>>
    /\ UNCHANGED <<lmvars, boot, llm, gov>>

\* the fields of a clone of the manager that write_freq reads and that can differ
\* from this manager's: every thread works on the clone it was handed, taken before
\* gen_cur_volt ran (cur_volt 0) or carrying a voltage of its own
Clones == [cur_freq : {100, 300}, cur_freq_idx : IdxSet, cur_volt : {0, cur_volt}]

\* write_freq on the clone b (the driver generation, the supported list and the
\* files are the same as this manager's)
WriteFreqOfClone(b, need_dcs, is_idle, o) ==
    LET freq_to_use == IF gpuv2 THEN get_closest_v2_supported_freq(b.cur_freq)
                       ELSE b.cur_freq
    IN WriteFreqIn(WriteModeOf(need_dcs, is_idle, b.cur_freq_idx, b.cur_volt),
                   ToString(freq_to_use),
                   ToString(freq_to_use) \o " " \o ToString(b.cur_volt),
                   need_dcs, is_idle, o)

\* the write_freq calls another thread can make: any clone, any arguments, any
\* outcome of each write
OtherCalls ==
    {WriteFreqOfClone(b, need_dcs, is_idle, o) :
        b \in Clones, need_dcs \in BOOLEAN, is_idle \in BOOLEAN,
        o \in [1..MaxWrites -> WriteOutcomes]}

\* during the sleep a write_freq call of another thread, on its clone of the manager,
\* writes to the control files: its writes, each with an outcome of its own, reach
\* the files one by one, and those from the i-th to the j-th fall into the sleep (the
\* call may have started before the sleep, so that only its later writes do, its
\* last "<freq> <volt>" write alone if it was asleep itself, and it may still be
\* running when the sleep ends)
write_freq_other_thread ==
    /\ wcall.pc = "sleep"
    /\ Len(wcall.between) < MaxOtherCalls
    /\ \E c \in OtherCalls :
          \E i \in 1..Len(c.log) :
             \E j \in i..Len(c.log) :
                wcall' = [wcall EXCEPT !.between = Append(@, SubSeq(c.log, i, j))]
    /\ UNCHANGED <<config_list, freq_volt, def_volt, cur_freq, cur_freq_idx, cur_volt,
                   gpuv2, v2_supported_freqs, exists, look>>
    /\ UNCHANGED <<lmvars, boot, llm, gov>>

\* frequency_manager.rs:284-294: the voltage maps are replaced
replace_freq_volt_tab ==
    /\ wcall.pc = "done"
    /\ \E tab \in VoltTabs : freq_volt' = tab
    /\ UNCHANGED <<config_list, def_volt, cur_freq, cur_freq_idx, cur_volt,
                   gpuv2, v2_supported_freqs, exists, wcall, look>>
    /\ UNCHANGED <<lmvars, boot, llm, gov>>

replace_def_volt_tab ==
    /\ wcall.pc = "done"
    /\ \E tab \in DefVoltTabs : def_volt' = tab
    /\ UNCHANGED <<config_list, freq_volt, cur_freq, cur_freq_idx, cur_volt,
                   gpuv2, v2_supported_freqs, exists, wcall, look>>
    /\ UNCHANGED <<lmvars, boot, llm, gov>>

NextWrite ==
    \/ gen_cur_volt
    \/ write_freq
    \/ write_freq_after_sleep
    \/ replace_freq_volt_tab
    \/ replace_def_volt_tab

SpecWrite == InitWrite /\ [][NextWrite]_vars

(***************************************************************************)
(* The write_freq calls of two threads, each on its clone of the manager,  *)
(* on a v2 driver whose control files exist: the governor loop's call and, *)
(* during its sleep, the calls of another thread.                          *)
(***************************************************************************)
InitClones ==
    /\ InitWrite
    /\ gpuv2
    /\ \A p \in ControlPaths : exists[p]
    /\ cur_freq = 300 /\ cur_freq_idx = 0
    /\ 300 \in DOMAIN freq_volt /\ def_volt = <<>>
    /\ v2_supported_freqs = <<200, 400>>

NextClones ==
    \/ gen_cur_volt
    \/ write_freq
    \/ write_freq_after_sleep
    \/ write_freq_other_thread

SpecClones == InitClones /\ [][NextClones]_vars

(***************************************************************************)
(* The load chain, one action per function; a call of get_gpu_load runs    *)
(* them in sequence until one returns.                                     *)
(***************************************************************************)
get_gpu_load ==
    /\ pc = "idle"
    /\ pc' = "debug_dvfs_load_func"
    /\ hand' = NoRead /\ cur' = NoRead /\ rd' = <<>> /\ ret' = NoRet
    /\ UNCHANGED <<status, prev>>
    /\ UNCHANGED <<fmvars, boot, llm, gov>>

module_ged_load ==
    /\ pc = "module_ged_load"
    /\ UNCHANGED prev /\ UNCHANGED <<fmvars, boot, llm, gov>>
    /\ IF ~get_status(MODULE_LOAD)
       THEN Skip /\ ReturnOk(-1, 0)
       ELSE /\ rd' = <<MODULE_LOAD>>
            /\ \E r \in Reads(ModuleBufs) :
                 IF ~r.ok
                 THEN /\ status' = read_file_failed(status, MODULE_LOAD)
                      /\ Read(9, "ioerr", 0) /\ ReturnErr(9)
                 ELSE /\ UNCHANGED status
                      /\ IF ~ParsesInt(r.buf)
                         THEN Read(9, "parse", 0) /\ ReturnErr(9)
                         ELSE LET load == r.buf[1].v
                              IN /\ Read(9, IF load = 0 THEN "zero" ELSE "value", load)
                                 /\ ReturnOk(load, 9)

module_ged_idle ==
    /\ pc = "module_ged_idle"
    /\ UNCHANGED prev /\ UNCHANGED <<fmvars, boot, llm, gov>>
    /\ IF ~get_status(MODULE_IDLE)
       THEN Skip /\ Call("module_ged_load")
       ELSE /\ rd' = <<MODULE_IDLE>>
            /\ \E r \in Reads(ModuleBufs) :
                 IF ~r.ok
                 THEN /\ status' = read_file_failed(status, MODULE_IDLE)
                      /\ Read(8, "ioerr", 0) /\ ReturnErr(8)
                 ELSE /\ UNCHANGED status
                      /\ IF ~ParsesInt(r.buf)
                         THEN Read(8, "parse", 0) /\ ReturnErr(8)
                         ELSE LET idle == r.buf[1].v
                              IN /\ Read(8, IF 100 - idle = 0 THEN "zero" ELSE "value",
                                         100 - idle)
                                 /\ ReturnOk(100 - idle, 8)

\* the body shared by the three kernel GED functions: source s at path, zero being
\* handed to onZero and everything else that falls through to onFall
KernelGed(s, path, onZero, onFall) ==
    /\ UNCHANGED prev /\ UNCHANGED <<fmvars, boot, llm, gov>>
    /\ IF ~get_status(path)
       THEN Skip /\ Call(onFall)
       ELSE /\ rd' = <<path>>
            /\ \E r \in Reads(KernelBufs) :
                 IF ~r.ok
                 THEN /\ status' = read_file_failed(status, path)
                      /\ Read(s, "ioerr", 0) /\ ReturnErr(s)
                 ELSE /\ UNCHANGED status
                      /\ IF ~ThirdParses(r.buf)
                         THEN Read(s, "parse", 0) /\ Call(onFall)
                         ELSE LET idle == r.buf[3].v
                              IN IF 100 - idle = 0
                                 THEN ReadTok(s, "zero", 0, <<idle>>) /\ Call(onZero)
                                 ELSE ReadTok(s, "value", 100 - idle, <<idle>>)
                                        /\ ReturnOk(100 - idle, s)

kernel_ged_load ==
    /\ pc = "kernel_ged_load"
    /\ KernelGed(7, KERNEL_LOAD, "module_ged_load", "module_ged_idle")

kernel_debug_ged_load ==
    /\ pc = "kernel_debug_ged_load"
    /\ KernelGed(6, KERNEL_D_LOAD, "kernel_ged_load", "kernel_ged_load")

kernel_d_ged_load ==
    /\ pc = "kernel_d_ged_load"
    /\ KernelGed(5, KERNEL_DEBUG_LOAD, "kernel_debug_ged_load", "kernel_debug_ged_load")

\* ProcLoad without the test of the availability flag
ProcLoad_unguarded(s, path, next) ==
    /\ UNCHANGED prev /\ UNCHANGED <<fmvars, boot, llm, gov>>
    /\ rd' = <<path>>
    /\ \E r \in Reads(KeyBufs) :
         IF ~r.ok
         THEN /\ status' = read_file_failed(status, path)
              /\ Read(s, "ioerr", 0) /\ ReturnErr(s)
         ELSE /\ UNCHANGED status
              /\ IF ~(r.buf.key /\ ParsesInt(r.buf.rest))
                 THEN Read(s, "parse", 0) /\ Call(next)
                 ELSE LET load == r.buf.rest[1].v
                      IN IF load = 0
                         THEN Read(s, "zero", 0) /\ Call(next)
                         ELSE Read(s, "value", load) /\ ReturnOk(load, s)

\* the body shared by mali_load and mtk_load: the text after the key parsed as i32
ProcLoad(s, path, next) ==
    /\ UNCHANGED prev /\ UNCHANGED <<fmvars, boot, llm, gov>>
    /\ IF ~get_status(path)
       THEN Skip /\ Call(next)
       ELSE /\ rd' = <<path>>
            /\ \E r \in Reads(KeyBufs) :
                 IF ~r.ok
                 THEN /\ status' = read_file_failed(status, path)
                      /\ Read(s, "ioerr", 0) /\ ReturnErr(s)
                 ELSE /\ UNCHANGED status
                      /\ IF ~(r.buf.key /\ ParsesInt(r.buf.rest))
                         THEN Read(s, "parse", 0) /\ Call(next)
                         ELSE LET load == r.buf.rest[1].v
                              IN IF load = 0
                                 THEN Read(s, "zero", 0) /\ Call(next)
                                 ELSE Read(s, "value", load) /\ ReturnOk(load, s)

mali_load ==
    /\ pc = "mali_load"
    /\ ProcLoad(4, PROC_MALI_LOAD, "kernel_d_ged_load")

mtk_load ==
    /\ pc = "mtk_load"
    /\ ProcLoad(3, PROC_MTK_LOAD, "mali_load")

\* the loop of gpufreq_load over the lines from position i on: "err" for a line that
\* failed to read, "none" when no line holds a load, or the load of the first line
\* that holds one
RECURSIVE GpufreqScan(_, _)
GpufreqScan(lines, i) ==
    IF i > Len(lines) THEN [k |-> "none", v |-> 0]
    ELSE IF lines[i].err THEN [k |-> "err", v |-> 0]
    ELSE IF lines[i].key /\ ParsesInt(lines[i].rest)
         THEN [k |-> "load", v |-> lines[i].rest[1].v]
    ELSE GpufreqScan(lines, i + 1)

gpufreq_load ==
    /\ pc = "gpufreq_load"
    /\ UNCHANGED prev /\ UNCHANGED <<fmvars, boot, llm, gov>>
    /\ IF ~get_status(GPU_FREQ_LOAD_PATH)
       THEN Skip /\ Call("mtk_load")
       ELSE /\ rd' = <<GPU_FREQ_LOAD_PATH>>
            /\ \E r \in Reads(GpufreqFiles) :
                 IF ~r.ok
                 THEN /\ status' = write_status(status, GPU_FREQ_LOAD_PATH, FALSE)
                      /\ Read(2, "ioerr", 0) /\ ReturnOk(0, 2)
                 ELSE /\ UNCHANGED status
                      /\ LET g == GpufreqScan(r.buf, 1)
                         IN CASE g.k = "err" -> Read(2, "ioerr", 0) /\ ReturnErr(2)
                              [] g.k = "none" -> Read(2, "parse", 0) /\ Call("mtk_load")
                              [] g.k = "load" /\ g.v = 0 ->
                                    Read(2, "zero", 0) /\ Call("mtk_load")
                              [] OTHER -> Read(2, "value", g.v) /\ ReturnOk(g.v, 2)

\* the retained triplet updated only when the sample is valid
PrevAfter_valid_only(busy, idle, protm) ==
    IF PreciseTotal(busy, idle, protm) > 0 THEN <<busy, idle, protm>> ELSE prev

\* PREV_BUSY, PREV_IDLE, PREV_PROTM after three fields parsed
PrevAfter(busy, idle, protm) == <<busy, idle, protm>>

\* lines.len() >= 2, parts.len() >= 3 and the first three fields parse as i64
PreciseParses(buf) ==
    /\ Len(buf) >= 2
    /\ Len(buf[2]) >= 3
    /\ buf[2][1].num /\ buf[2][2].num /\ buf[2][3].num

debug_dvfs_load_func ==
    /\ pc = "debug_dvfs_load_func"
    /\ UNCHANGED <<fmvars, boot, llm, gov>>
    /\ IF ~get_status(DEBUG_DVFS_LOAD) /\ ~get_status(DEBUG_DVFS_LOAD_OLD)
       THEN Skip /\ Call("gpufreq_load") /\ UNCHANGED prev
       ELSE LET path == IF get_status(DEBUG_DVFS_LOAD) THEN DEBUG_DVFS_LOAD
                        ELSE DEBUG_DVFS_LOAD_OLD
            IN /\ rd' = <<path>>
               /\ \E r \in Reads(PreciseBufs) :
                    IF ~r.ok
                    THEN /\ status' = read_file_failed(status, path)
                         /\ Read(1, "ioerr", 0) /\ ReturnErr(1) /\ UNCHANGED prev
                    ELSE /\ UNCHANGED status
                         /\ IF ~PreciseParses(r.buf)
                            THEN Read(1, "parse", 0) /\ Call("gpufreq_load")
                                   /\ UNCHANGED prev
                            ELSE LET busy == r.buf[2][1].v
                                     idle == r.buf[2][2].v
                                     protm == r.buf[2][3].v
                                     load == PreciseLoad(busy, idle, protm)
                                 IN /\ prev' = PrevAfter(busy, idle, protm)
                                    /\ IF PreciseTotal(busy, idle, protm) > 0
                                       THEN IF load = 0
                                            THEN ReadTok(1, "zero", 0, <<busy, idle, protm>>)
                                                   /\ Call("mtk_load")
                                            ELSE ReadTok(1, "value", load,
                                                         <<busy, idle, protm>>)
                                                   /\ ReturnOk(load, 1)
                                       ELSE ReadTok(1, "invalid", 0, <<busy, idle, protm>>)
                                              /\ Call("gpufreq_load")

(***************************************************************************)
(* get_gpu_current_freq                                                    *)
(***************************************************************************)
V2FreqBufs == {<<Num(0), Num(300)>>, <<Num(0)>>, <<Num(0), Junk>>}
\* a line of the v1 dump: failed to read, of at most 3 characters, or of one of the
\* formats "idx: .., freq: N, ..", "Freq: N, ..", "cur_freq = N" (fmt), with or
\* without the comma that ends the frequency, and the frequency's text
VLine(fmt, comma, tok) ==
    [err |-> FALSE, short |-> FALSE, fmt |-> fmt, comma |-> comma, rest |-> <<tok>>]
VLineErr == [err |-> TRUE, short |-> FALSE, fmt |-> "other", comma |-> FALSE, rest |-> <<>>]
VLineShort == [err |-> FALSE, short |-> TRUE, fmt |-> "other", comma |-> FALSE, rest |-> <<>>]
V1Files == {<<VLineErr, VLine("idx", TRUE, Num(300))>>,
            <<VLineShort, VLine("idx", FALSE, Num(300)), VLine("Freq", TRUE, Num(200))>>,
            <<VLine("Freq", TRUE, Junk), VLine("cur_freq", FALSE, Num(100))>>,
            <<VLine("other", TRUE, Num(100))>>}

\* TryV2 without the write_status(path, false) of a failed read
TryV2_keeps_enabled(st, path, r) ==
    IF ~st[path] THEN [st |-> st, rd |-> <<>>, got |-> FALSE, v |-> 0]
    ELSE IF ~r.ok THEN [st |-> st, rd |-> <<path>>, got |-> FALSE, v |-> 0]
    ELSE IF Len(r.buf) >= 2 /\ r.buf[2].num
         THEN [st |-> st, rd |-> <<path>>, got |-> TRUE, v |-> r.buf[2].v]
    ELSE [st |-> st, rd |-> <<path>>, got |-> FALSE, v |-> 0]

\* one v2 path tried: the flags after it, the paths read, and the frequency if one
\* was obtained
TryV2(st, path, r) ==
    IF ~st[path] THEN [st |-> st, rd |-> <<>>, got |-> FALSE, v |-> 0]
    ELSE IF ~r.ok
         THEN [st |-> write_status(st, path, FALSE), rd |-> <<path>>, got |-> FALSE, v |-> 0]
    ELSE IF Len(r.buf) >= 2 /\ r.buf[2].num
         THEN [st |-> st, rd |-> <<path>>, got |-> TRUE, v |-> r.buf[2].v]
    ELSE [st |-> st, rd |-> <<path>>, got |-> FALSE, v |-> 0]

\* the loop of read_v1_gpu_freq_from_var_dump over the lines from position i on
RECURSIVE V1Scan(_, _)
V1Scan(lines, i) ==
    IF i > Len(lines) THEN [got |-> FALSE, v |-> 0]
    ELSE LET l == lines[i]
         IN IF l.err \/ l.short THEN V1Scan(lines, i + 1)
            ELSE IF l.fmt \in {"idx", "Freq"} /\ l.comma /\ ParsesInt(l.rest)
                 THEN [got |-> TRUE, v |-> l.rest[1].v]
            ELSE IF l.fmt = "cur_freq" /\ ParsesInt(l.rest)
                 THEN [got |-> TRUE, v |-> l.rest[1].v]
            ELSE V1Scan(lines, i + 1)

read_v1_gpu_freq_from_var_dump(st, r) ==
    IF ~st[GPU_FREQ_LOAD_PATH] THEN [st |-> st, rd |-> <<>>, got |-> FALSE, v |-> 0]
    ELSE IF ~r.ok
         THEN [st |-> write_status(st, GPU_FREQ_LOAD_PATH, FALSE),
               rd |-> <<GPU_FREQ_LOAD_PATH>>, got |-> FALSE, v |-> 0]
    ELSE LET g == V1Scan(r.buf, 1)
         IN [st |-> st, rd |-> <<GPU_FREQ_LOAD_PATH>>, got |-> g.got, v |-> g.v]

\* get_gpu_current_freq(is_v1_driver) on the three files' read results: the flags
\* after the call, the paths read in order, and the Result
GetGpuCurrentFreq(is_v1_driver, r1, r2, r3) ==
    LET a == TryV2(status, GPU_CURRENT_FREQ_PATH, r1)
        b == TryV2(a.st, GPU_DEBUG_CURRENT_FREQ_PATH, r2)
        c == read_v1_gpu_freq_from_var_dump(b.st, r3)
        d == read_v1_gpu_freq_from_var_dump(status, r3)
        Res(x, rds, s) == [st |-> x.st, rd |-> rds,
                           kind |-> IF x.got THEN "ok" ELSE "err", v |-> x.v, src |-> s]
    IN IF is_v1_driver THEN Res(d, d.rd, 12)
       ELSE IF a.got THEN Res(a, a.rd, 10)
       ELSE IF b.got THEN Res(b, a.rd \o b.rd, 11)
       ELSE Res(c, a.rd \o b.rd \o c.rd, 12)

\* the read result standing for a file the call does not read
Unread == [ok |-> FALSE, buf |-> <<>>]

get_gpu_current_freq ==
    /\ pc = "idle"
    /\ \E is_v1_driver \in BOOLEAN :
       \E r1 \in IF ~is_v1_driver /\ get_status(GPU_CURRENT_FREQ_PATH)
                 THEN Reads(V2FreqBufs) ELSE {Unread} :
       \E r2 \in IF /\ ~is_v1_driver
                    /\ ~TryV2(status, GPU_CURRENT_FREQ_PATH, r1).got
                    /\ get_status(GPU_DEBUG_CURRENT_FREQ_PATH)
                 THEN Reads(V2FreqBufs) ELSE {Unread} :
       \E r3 \in IF /\ get_status(GPU_FREQ_LOAD_PATH)
                    /\ \/ is_v1_driver
                       \/ /\ ~TryV2(status, GPU_CURRENT_FREQ_PATH, r1).got
                          /\ ~TryV2(status, GPU_DEBUG_CURRENT_FREQ_PATH, r2).got
                 THEN Reads(V1Files) ELSE {Unread} :
          LET g == GetGpuCurrentFreq(is_v1_driver, r1, r2, r3)
          IN /\ status' = g.st
             /\ rd' = g.rd
             /\ ret' = [fn |-> "get_gpu_current_freq", kind |-> g.kind, val |-> g.v,
                        src |-> g.src]
    /\ hand' = NoRead /\ cur' = NoRead
    /\ UNCHANGED <<pc, prev>>
    /\ UNCHANGED <<fmvars, boot, llm, gov>>

(***************************************************************************)
(* Specifications                                                          *)
(***************************************************************************)
\* FrequencyManager::new()
InitFM ==
    /\ config_list = <<>>
    /\ freq_volt = <<>>
    /\ def_volt = <<>>
    /\ cur_freq = 0
    /\ cur_freq_idx = 0
    /\ cur_volt = 0
    /\ gpuv2 = FALSE
    /\ v2_supported_freqs = <<>>
    /\ exists = [p \in ControlPaths |-> FALSE]
    /\ wcall = NoCall
    /\ look = NoLook

\* the flags utilization_init leaves when it succeeds: some load path other than the
\* gpufreq file is readable (is_good) and some frequency-report path is
InitOk(st) ==
    /\ \E p \in LoadPaths \ {GPU_FREQ_LOAD_PATH} : st[p]
    /\ \E p \in FreqPaths \cup {GPU_FREQ_LOAD_PATH} : st[p]

InitLoad ==
    /\ status \in {st \in [Paths -> BOOLEAN] :
                      /\ InitOk(st)
                      /\ Cardinality({p \in LoadPaths : st[p]}) <= MaxAvailable}
    /\ prev = <<0, 0, 0>>
    /\ pc = "idle"
    /\ hand = NoRead
    /\ cur = NoRead
    /\ rd = <<>>
    /\ ret = NoRet
    /\ boot = NoBoot
    /\ llm = NoBoot
    /\ gov = NoBoot
    /\ InitFM

NextLoad ==
    \/ get_gpu_load
    \/ debug_dvfs_load_func
    \/ gpufreq_load
    \/ mtk_load
    \/ mali_load
    \/ kernel_d_ged_load
    \/ kernel_debug_ged_load
    \/ kernel_ged_load
    \/ module_ged_idle
    \/ module_ged_load
    \/ get_gpu_current_freq

SpecLoad == InitLoad /\ [][NextLoad]_vars

(***************************************************************************)
(* Claims about write_freq, checked under SpecWrite.                       *)
(***************************************************************************)
\* the k-th write of the last call wrote data to path
Wrote(k, path, data) ==
    /\ k \in 1..Len(wcall.log)
    /\ wcall.log[k].path = path
    /\ wcall.log[k].data = data
\* the k-th write of the last call returned Err or Ok(0)
WriteErrOrZero(k) == wcall.log[k].res \in {"err", "zero"}
\* the last call passed the existence test
Selected == wcall.called /\ ~ControlFileMissing
DcsCond == wcall.need_dcs /\ gpuv2 /\ cur_freq_idx = 0

\* C1: a write_freq call that reaches the mode selection takes exactly one mode, the
\* first in the order is_idle -> idle, need_dcs and gpuv2 and cur_freq_idx = 0 -> dcs,
\* cur_volt = 0 -> no-volt, otherwise normal; is_idle overrides the other conditions
\* and dcs is never taken on a v1 driver.
C1_ModeOrder ==
    Selected =>
        /\ wcall.mode \in {"idle", "dcs", "no-volt", "normal"}
        /\ (wcall.is_idle => wcall.mode = "idle")
        /\ (~wcall.is_idle /\ DcsCond => wcall.mode = "dcs")
        /\ (~wcall.is_idle /\ ~DcsCond /\ cur_volt = 0 => wcall.mode = "no-volt")
        /\ (~wcall.is_idle /\ ~DcsCond /\ cur_volt # 0 => wcall.mode = "normal")
        /\ (wcall.mode = "dcs" => gpuv2)

\* C1 witness: is_idle holds together with the dcs condition and cur_volt = 0, and the
\* call took the idle mode.
C1_Witness ==
    /\ Selected /\ wcall.is_idle /\ DcsCond /\ cur_volt = 0
    /\ wcall.mode = "idle" /\ Len(wcall.log) >= 2

\* C2 (checked under SpecClones, where other threads write during the sleep of the
\* call): in v2 normal mode the "<freq> <volt>" pair is written to the voltage file only
\* after, in that same call, "0 0" has been written to the voltage file and then an
\* opp release has been written to the opp file: "-1", or "0" when the "-1" write
\* failed or wrote nothing; the pair write is the last write of the call.  A write
\* has been written when it returned Ok(n) with n > 0.
C2_PairAfterWrittenRelease ==
    (Selected /\ gpuv2 /\ wcall.mode = "normal") =>
        \A k \in 1..Len(wcall.log) :
            Wrote(k, VoltPath, VoltContent) =>
                /\ k = Len(wcall.log)
                /\ Wrote(1, VoltPath, "0 0") /\ wcall.log[1].res = "ok"
                /\ Wrote(2, OppPath, "-1")
                /\ IF WriteErrOrZero(2)
                   THEN k = 4 /\ Wrote(3, OppPath, "0") /\ wcall.log[3].res = "ok"
                   ELSE k = 3

\* C2, for the write calls made rather than their effect: in v2 normal mode the pair
\* write is the last write call of the write_freq call, and before it the call has
\* made the "0 0" write, which did not return Err, then the "-1" write, and then the
\* "0" write exactly when the "-1" write returned Err or Ok(0), which did not return
\* Err either; each of them may have returned Ok(0).
C2_NormalV2Order ==
    (Selected /\ gpuv2 /\ wcall.mode = "normal") =>
        \A k \in 1..Len(wcall.log) :
            Wrote(k, VoltPath, VoltContent) =>
                /\ k = Len(wcall.log)
                /\ Wrote(1, VoltPath, "0 0")
                /\ wcall.log[1].res # "err"
                /\ Wrote(2, OppPath, "-1")
                /\ IF WriteErrOrZero(2)
                   THEN k = 4 /\ Wrote(3, OppPath, "0") /\ wcall.log[3].res # "err"
                   ELSE k = 3

\* a v2 normal call whose "-1" write failed, that retried with "0" and then wrote the
\* pair, after the last write of another thread's normal call, its pair, had landed
\* during the sleep
C2_Witness ==
    /\ Selected /\ gpuv2 /\ wcall.mode = "normal" /\ wcall.pc = "done"
    /\ Len(wcall.log) = 4 /\ Wrote(4, VoltPath, VoltContent)
    /\ wcall.log[2].res = "err"
    /\ Len(wcall.between) = 1 /\ Len(wcall.between[1]) = 1
    /\ wcall.between[1][1].path = VoltPath /\ wcall.between[1][1].data = VoltContent

\* C3: a write_freq call with is_idle on a v2 driver with both control files present
\* writes "0 0" to the voltage file, then "-1" to the opp file, then "0" to the opp
\* file only if the "-1" write failed or wrote zero bytes (a failed "0 0" write ends
\* the call); it writes no "<freq> <volt>" pair and no "<freq>" payload, whatever
\* need_dcs, cur_volt and cur_freq_idx are.
C3_IdleV2Writes ==
    (Selected /\ gpuv2 /\ wcall.is_idle) =>
        /\ Wrote(1, VoltPath, "0 0")
        /\ IF wcall.log[1].res = "err" THEN Len(wcall.log) = 1
           ELSE /\ Wrote(2, OppPath, "-1")
                /\ IF WriteErrOrZero(2)
                   THEN Len(wcall.log) = 3 /\ Wrote(3, OppPath, "0")
                   ELSE Len(wcall.log) = 2
        /\ \A k \in 1..Len(wcall.log) :
               wcall.log[k].data \notin {VoltContent, Content}

\* C3 witness: an idle v2 call made while the dcs condition holds and cur_volt is not
\* 0, whose "-1" write wrote nothing and was retried with "0".
C3_Witness ==
    /\ Selected /\ gpuv2 /\ wcall.is_idle /\ DcsCond /\ cur_volt # 0
    /\ Len(wcall.log) = 3 /\ wcall.log[2].res = "zero"

\* C4: when the voltage file or the opp file of the active generation's pair does not
\* exist, write_freq writes nothing and returns Ok, whatever need_dcs, is_idle and the
\* operating point are.
C4_MissingFileNoOp ==
    (wcall.called /\ (~exists[VoltPath] \/ ~exists[OppPath])) =>
        wcall.log = <<>> /\ wcall.ret = "ok"

\* C4 witness: a call made with only the opp file of the active pair missing, the
\* other generation's pair present.
C4_Witness ==
    /\ wcall.called /\ exists[VoltPath] /\ ~exists[OppPath]
    /\ \A p \in ControlPaths \ {OppPath} : exists[p]
    /\ wcall.is_idle /\ cur_volt # 0

\* C5: in the v2 idle, dcs and normal modes a failed opp retry write ("0" after the
\* "-1" write failed or wrote nothing) never makes write_freq return an error, and a
\* failed "<freq> <volt>" write always does.
C5_RetrySwallowed ==
    (Selected /\ gpuv2 /\ wcall.mode \in {"idle", "dcs", "normal"}) =>
        /\ (Wrote(3, OppPath, "0") /\ Wrote(2, OppPath, "-1") /\ wcall.log[3].res = "err"
                => wcall.ret = "ok")
        /\ \A k \in 1..Len(wcall.log) :
               Wrote(k, VoltPath, VoltContent) /\ wcall.log[k].res = "err"
                   => wcall.ret = "err"

\* the part of C5 the code keeps: a failed "<freq> <volt>" write makes the call fail
C5_PairFailurePropagates ==
    (Selected /\ gpuv2 /\ wcall.mode = "normal") =>
        \A k \in 1..Len(wcall.log) :
            Wrote(k, VoltPath, VoltContent) /\ wcall.log[k].res = "err"
                => wcall.ret = "err"

(***************************************************************************)
(* Claims about the load chain, checked under SpecLoad.                    *)
(***************************************************************************)
\* source s is still enabled: one of its paths has its flag set
EnabledSrc(s) == \E p \in SrcPaths(s) : status[p]
Max(a, b) == IF a >= b THEN a ELSE b

\* C6: when a source other than the two lowest-priority ones computes a load of
\* exactly 0, the call goes on with the immediately next still-enabled source of the
\* priority order: the next source it reads has no enabled source between the two,
\* and it returns without another read only if no lower-priority source is enabled.
C6_ZeroFallsToNextEnabled ==
    [][(pc # "idle" /\ cur.out = "zero" /\ cur.src \in 1..7) =>
          /\ (rd' # <<>> =>
                \A u \in Sources : (cur.src < u /\ u < cur'.src) => ~EnabledSrc(u))
          /\ (rd' = <<>> /\ pc' = "idle" =>
                \A u \in Sources : u > cur.src => ~EnabledSrc(u))]_vars

\* C7: whenever get_gpu_load returns 0, the 0 was produced by one of the two
\* lowest-priority sources (module GED idle, module GED load).
C7_ZeroOnlyFromBottom ==
    (pc = "idle" /\ ret.fn = "get_gpu_load" /\ ret.kind = "ok" /\ ret.val = 0)
        => ret.src \in {8, 9}

\* C8: when a source's file is read but its content fails to parse, the source's
\* availability flag is left unchanged and, for a source that has a lower-priority
\* one, the same call goes on with the function of the next source instead of
\* returning.
C8_ParseFailureFallsThrough ==
    [][(pc # "idle" /\ rd' # <<>> /\ cur'.out = "parse") =>
          /\ status' = status
          /\ (cur'.src < 9 => pc' = SrcFn(cur'.src + 1))]_vars

\* C9: availability flags are monotone: a step of get_gpu_load or of
\* get_gpu_current_freq never sets a false flag back to true, and it opens or reads
\* only paths whose flag was true, each at most once.
C9_FlagsMonotone ==
    [][/\ \A p \in Paths : ~status[p] => ~status'[p]
       /\ \A k \in 1..Len(rd') : status[rd'[k]]
       /\ \A j, k \in 1..Len(rd') : rd'[j] = rd'[k] => j = k]_vars

\* C9 witness: both precise-counter paths are disabled although one of them was read
\* earlier (the previous counters are set), and the running call has passed
\* debug_dvfs_load_func without a read.
C9_Witness ==
    /\ prev # <<0, 0, 0>>
    /\ ~status[DEBUG_DVFS_LOAD] /\ ~status[DEBUG_DVFS_LOAD_OLD]
    /\ pc = "gpufreq_load" /\ rd = <<>> /\ cur = NoRead

\* C10: for the precise-counter source with previous triplet (pb,pi,pp) and current
\* triplet (b,i,p): if total = (b-pb)+(i-pi)+(p-pp) > 0 the computed load is
\* max(0, (b-pb)+(p-pp)) * 100 / total (prev (100,50,0), cur (150,70,10) gives 75,
\* which the call returns); if total <= 0 the sample is invalid and the call falls
\* through to gpufreq_load.
C10_PreciseLoad ==
    [][(pc = "debug_dvfs_load_func" /\ rd' # <<>>
            /\ cur'.out \in {"value", "zero", "invalid"}) =>
          LET busy == prev'[1] - prev[1]
              idle == prev'[2] - prev[2]
              protm == prev'[3] - prev[3]
              total == busy + idle + protm
              n == Max(0, busy + protm)
              \* n * 100 \div total is 100 * hundreds + units
              hundreds == n \div total
              units == (100 * (n % total)) \div total
              zero == hundreds = 0 /\ units = 0
          IN IF total > 0
             THEN /\ cur'.out = (IF zero THEN "zero" ELSE "value")
                  /\ cur'.val >= 0
                  /\ cur'.val \div 100 = hundreds
                  /\ cur'.val % 100 = units
                  /\ ~zero =>
                        /\ pc' = "idle"
                        /\ ret' = [fn |-> "get_gpu_load", kind |-> "ok",
                                   val |-> cur'.val, src |-> 1]
                  /\ (prev = <<100, 50, 0>> /\ prev' = <<150, 70, 10>>) =>
                        cur'.val = 75
             ELSE /\ cur'.out = "invalid"
                  /\ pc' = "gpufreq_load"
                  /\ ret'.kind = "none"]_vars

\* C10 witness: the call returned 75, computed from the counters (150,70,10) read
\* after (100,50,0).
C10_Witness ==
    /\ pc = "idle" /\ ret = [fn |-> "get_gpu_load", kind |-> "ok", val |-> 75, src |-> 1]
    /\ prev = <<150, 70, 10>>
    /\ cur = [src |-> 1, out |-> "value", val |-> 75, tok |-> <<150, 70, 10>>]

\* C10 second witness: an invalid sample (total <= 0) handed to gpufreq_load.
C10_InvalidReached ==
    pc = "gpufreq_load" /\ cur.src = 1 /\ cur.out = "invalid"

(***************************************************************************)
(* The frequency table and its lookups (frequency_manager.rs:51-148,       *)
(* 262-276).                                                               *)
(***************************************************************************)
\* self.config_list.len() - 1 on an empty table with id >= 0: the usize subtraction
\* overflows, which panics in a build with overflow checks and wraps without them
UnifyIdOverflows(id) == id >= 0 /\ Len(config_list) = 0

\* unify_id where it does not panic; the wrapped usize::MAX as i64 is -1
unify_id(id) ==
    IF id < 0 THEN 0
    ELSE IF id >= Len(config_list) THEN Len(config_list) - 1
    ELSE id

\* config_list.get(i as usize).copied().unwrap_or(0); a negative i casts to an index
\* past every table
VecGetOr0(i) == IF 0 <= i /\ i < Len(config_list) THEN config_list[i + 1] ELSE 0

\* get_freq_by_index; overflow_checks is the build's setting
GetFreqByIndex(idx, overflow_checks) ==
    IF overflow_checks /\ UnifyIdOverflows(idx)
    THEN [failed |-> TRUE, res |-> 0]
    ELSE [failed |-> FALSE, res |-> VecGetOr0(unify_id(idx))]

\* *self.config_list.last().unwrap_or(&0)
LastOr0 == IF config_list = <<>> THEN 0 ELSE config_list[Len(config_list)]
\* *self.config_list.first().unwrap_or(&0)
FirstOr0 == IF config_list = <<>> THEN 0 ELSE config_list[1]

\* the loop of read_freq_ge from position i on
RECURSIVE GeScan(_, _)
GeScan(i, freq) ==
    IF i > Len(config_list) THEN LastOr0
    ELSE IF config_list[i] >= freq THEN config_list[i]
    ELSE GeScan(i + 1, freq)

\* read_freq_ge without its early return for freq <= 0
ReadFreqGe_no_guard(freq) == GeScan(1, freq)

ReadFreqGe(freq) == IF freq <= 0 THEN LastOr0 ELSE GeScan(1, freq)

\* the loop of read_freq_le, over config_list.iter().rev(), from position i down
RECURSIVE LeScan(_, _)
LeScan(i, freq) ==
    IF i < 1 THEN FirstOr0
    ELSE IF config_list[i] <= freq THEN config_list[i]
    ELSE LeScan(i - 1, freq)

\* the same loop without .rev()
RECURSIVE LeScanForward(_, _)
LeScanForward(i, freq) ==
    IF i > Len(config_list) THEN FirstOr0
    ELSE IF config_list[i] <= freq THEN config_list[i]
    ELSE LeScanForward(i + 1, freq)

\* read_freq_le scanning the table front to back
ReadFreqLe_forward(freq) == IF freq <= 0 THEN FirstOr0 ELSE LeScanForward(1, freq)

ReadFreqLe(freq) == IF freq <= 0 THEN FirstOr0 ELSE LeScan(Len(config_list), freq)

\* the loop of read_freq_index from position i on; enumerate() counts from 0
RECURSIVE IndexScan(_, _)
IndexScan(i, freq) ==
    IF i > Len(config_list) THEN 0
    ELSE IF config_list[i] = freq THEN i - 1
    ELSE IndexScan(i + 1, freq)

\* read_freq_index returning the position counted from 1
ReadFreqIndex_one_based(freq) == IndexScan(1, freq) + 1

ReadFreqIndex(freq) == IndexScan(1, freq)

\* the frequencies of the tables and the arguments of the lookups
Freqs == {100, 200, 300}
FreqArgs == {-5, 0, 50, 100, 150, 200, 250, 300, 350}
IdxArgs == {-2, -1, 0, 1, 2, 3, 4}

\* the tables the table file's parser hands to set_config_list: populated, ascending,
\* duplicate-free
ConfigLists ==
    {t \in UNION {[1..n -> Freqs] : n \in 1..Cardinality(Freqs)} :
        \A i, j \in 1..Len(t) : i < j => t[i] < t[j]}

\* the v2-supported subsets, in the order the driver lists them
V2Subsets == {<<>>, <<200, 400>>, <<400, 200>>, <<300>>, <<100, 300, 200>>}

\* tables that are not the parser's: empty, descending, with a duplicate
OtherLists == {<<>>, <<300, 100>>, <<200, 200>>}

\* set_config_list stores the Vec it is given
set_config_list ==
    /\ \E t \in ConfigLists \cup OtherLists : config_list' = t
    /\ look' = NoLook
    /\ UNCHANGED <<freq_volt, def_volt, cur_freq, cur_freq_idx, cur_volt, gpuv2,
                   v2_supported_freqs, exists, wcall>>
    /\ UNCHANGED <<lmvars, boot, llm, gov>>

\* the operating point moves to an entry of the table
update_operating_point ==
    /\ \E i \in 0..(Len(config_list) - 1) :
          /\ cur_freq_idx' = i
          /\ cur_freq' = GetFreqByIndex(i, FALSE).res
    /\ look' = NoLook
    /\ UNCHANGED <<config_list, freq_volt, def_volt, cur_volt, gpuv2,
                   v2_supported_freqs, exists, wcall>>
    /\ UNCHANGED <<lmvars, boot, llm, gov>>

\* the driver's list of supported frequencies is stored
set_v2_supported_freqs ==
    /\ \E l \in V2Subsets : v2_supported_freqs' = l
    /\ look' = NoLook
    /\ UNCHANGED <<config_list, freq_volt, def_volt, cur_freq, cur_freq_idx, cur_volt,
                   gpuv2, exists, wcall>>
    /\ UNCHANGED <<lmvars, boot, llm, gov>>

\* a lookup leaves the manager as it is; the call and its result are recorded
Lookup(fn, arg, res, failed) ==
    /\ look' = [fn |-> fn, arg |-> arg, res |-> res, failed |-> failed]
    /\ UNCHANGED <<config_list, freq_volt, def_volt, cur_freq, cur_freq_idx, cur_volt,
                   gpuv2, v2_supported_freqs, exists, wcall>>
    /\ UNCHANGED <<lmvars, boot, llm, gov>>

get_freq_by_index ==
    \E idx \in IdxArgs, overflow_checks \in BOOLEAN :
        LET r == GetFreqByIndex(idx, overflow_checks)
        IN Lookup("get_freq_by_index", idx, r.res, r.failed)

read_freq_ge == \E freq \in FreqArgs : Lookup("read_freq_ge", freq, ReadFreqGe(freq), FALSE)

read_freq_le == \E freq \in FreqArgs : Lookup("read_freq_le", freq, ReadFreqLe(freq), FALSE)

read_freq_index ==
    \E freq \in FreqArgs : Lookup("read_freq_index", freq, ReadFreqIndex(freq), FALSE)

closest_v2_supported_freq ==
    \E target_freq \in FreqArgs :
        Lookup("get_closest_v2_supported_freq", target_freq,
               get_closest_v2_supported_freq(target_freq), FALSE)

InitTable == InitFM /\ InitLM

NextTable ==
    \/ set_config_list
    \/ replace_freq_volt_tab
    \/ replace_def_volt_tab
    \/ update_operating_point
    \/ set_v2_supported_freqs
    \/ get_freq_by_index
    \/ read_freq_ge
    \/ read_freq_le
    \/ read_freq_index
    \/ closest_v2_supported_freq

SpecTable == InitTable /\ [][NextTable]_vars

(***************************************************************************)
(* Claims about the frequency table, checked under SpecTable.              *)
(***************************************************************************)
Entries == {config_list[k] : k \in 1..Len(config_list)}
SetMax(S) == CHOOSE x \in S : \A y \in S : y <= x
SetMin(S) == CHOOSE x \in S : \A y \in S : x <= y
Clamp(i) == IF i < 0 THEN 0 ELSE IF i > Len(config_list) - 1 THEN Len(config_list) - 1 ELSE i
\* the manager holds a frequency table: ascending and duplicate-free
IsFrequencyTable == \A i, j \in 1..Len(config_list) : i < j => config_list[i] < config_list[j]

\* C14: after any sequence of table replacements and operating-point updates the
\* current index is a valid index of the (non-empty) table:
\* 0 <= cur_freq_idx < Len(config_list).
C14_IndexValid ==
    config_list # <<>> => 0 <= cur_freq_idx /\ cur_freq_idx < Len(config_list)

\* C15: for every table the manager holds and every integer index i,
\* get_freq_by_index(i) does not fail and returns the entry at i clamped into the
\* table's range.
C15_ClampNeverFails ==
    look.fn = "get_freq_by_index" =>
        /\ ~look.failed
        /\ config_list # <<>> => look.res = config_list[Clamp(look.arg) + 1]

\* on a populated table get_freq_by_index does not fail and returns the clamped entry
C15_ClampPopulated ==
    (look.fn = "get_freq_by_index" /\ config_list # <<>>) =>
        ~look.failed /\ look.res = config_list[Clamp(look.arg) + 1]

\* C16: for every frequency table (ascending, duplicate-free) the manager holds and
\* every valid index i of it, read_freq_index(get_freq_by_index(i)) = i, and
\* read_freq_index of a frequency that is not in the table is 0.
C16_RoundTrip ==
    /\ IsFrequencyTable =>
          \A i \in 0..(Len(config_list) - 1) : \A b \in BOOLEAN :
              /\ ~GetFreqByIndex(i, b).failed
              /\ ReadFreqIndex(GetFreqByIndex(i, b).res) = i
    /\ look.fn = "read_freq_index" =>
          /\ look.arg \notin Entries => look.res = 0
          /\ look.arg \in Entries => GetFreqByIndex(look.res, TRUE).res = look.arg

C16_Witness ==
    /\ look.fn = "read_freq_index"
    /\ Len(config_list) = 3
    /\ look.arg = config_list[3]
    /\ look.res = 2

\* C17: on a frequency table (ascending, duplicate-free) read_freq_ge(f) is the
\* smallest entry >= f, and the table's maximum when f <= 0 or no entry is >= f; on
\* [100,200,300]: ge(0) = 300, ge(150) = 200, ge(350) = 300.
C17_FreqGe ==
    /\ (look.fn = "read_freq_ge" /\ config_list # <<>> /\ IsFrequencyTable) =>
          LET above == {e \in Entries : e >= look.arg}
          IN look.res = IF look.arg <= 0 \/ above = {} THEN SetMax(Entries)
                        ELSE SetMin(above)
    /\ config_list = <<100, 200, 300>> =>
          ReadFreqGe(0) = 300 /\ ReadFreqGe(150) = 200 /\ ReadFreqGe(350) = 300

C17_Witness ==
    /\ look.fn = "read_freq_ge"
    /\ config_list = <<100, 200, 300>>
    /\ look.arg = 150
    /\ look.res = 200

\* C18: on a frequency table (ascending, duplicate-free) read_freq_le(f) is the
\* largest entry <= f, and the table's minimum when f <= 0 or no entry is <= f; on
\* [100,200,300]: le(0) = 100, le(250) = 200, le(50) = 100.
C18_FreqLe ==
    /\ (look.fn = "read_freq_le" /\ config_list # <<>> /\ IsFrequencyTable) =>
          LET below == {e \in Entries : e <= look.arg}
          IN look.res = IF look.arg <= 0 \/ below = {} THEN SetMin(Entries)
                        ELSE SetMax(below)
    /\ config_list = <<100, 200, 300>> =>
          ReadFreqLe(0) = 100 /\ ReadFreqLe(250) = 200 /\ ReadFreqLe(50) = 100

C18_Witness ==
    /\ look.fn = "read_freq_le"
    /\ config_list = <<100, 200, 300>>
    /\ look.arg = 250
    /\ look.res = 200

\* C19: get_closest_v2_supported_freq(target) is the member of a non-empty
\* v2-supported subset at minimal absolute distance from target, the lowest-index one
\* among ties ({200,400}, target 300: 200), and target itself when the subset is empty.
C19_ClosestV2 ==
    look.fn = "get_closest_v2_supported_freq" =>
        /\ v2_supported_freqs = <<>> => look.res = look.arg
        /\ v2_supported_freqs # <<>> =>
              \E k \in 1..Len(v2_supported_freqs) :
                  /\ v2_supported_freqs[k] = look.res
                  /\ \A j \in 1..Len(v2_supported_freqs) :
                        /\ Abs(look.arg - v2_supported_freqs[j]) >= Abs(look.arg - look.res)
                        /\ j < k => Abs(look.arg - v2_supported_freqs[j])
                                        > Abs(look.arg - look.res)
        /\ (v2_supported_freqs = <<200, 400>> /\ look.arg = 300) => look.res = 200

C19_Witness ==
    /\ look.fn = "get_closest_v2_supported_freq"
    /\ v2_supported_freqs = <<200, 400>>
    /\ look.arg = 300
    /\ look.res = 200

(***************************************************************************)
(* Claims about gen_cur_volt, checked under SpecWrite.                     *)
(***************************************************************************)
\* the voltage of the frequency write_freq writes: the v2-snapped frequency on a v2
\* driver, the raw current frequency on a v1 driver
VoltOfWrittenFreq ==
    LET v == MapGet(freq_volt, FreqToUse)
    IN IF v = 0 THEN MapGet(def_volt, FreqToUse) ELSE v

\* C20: gen_cur_volt sets cur_volt to the voltage-map entry of the v2-snapped
\* frequency on a v2 driver and of the raw current frequency on a v1 driver, whatever
\* the v2-supported subset holds, falling back to the default-voltage entry of that
\* same frequency when the voltage map yields 0.
C20_VoltOfDriverFreq ==
    [][gen_cur_volt => cur_volt' = VoltOfWrittenFreq]_vars

\* on a v2 driver, and on a v1 driver whose v2-supported subset is empty, gen_cur_volt
\* stores the voltage of the frequency write_freq writes
C20_VoltWhenSnapAgrees ==
    [][(gen_cur_volt /\ (gpuv2 \/ v2_supported_freqs = <<>>))
           => cur_volt' = VoltOfWrittenFreq]_vars

(***************************************************************************)
(* Startup: utilization_init (load_monitor.rs:403-469) and main            *)
(* (main.rs:29-115, 222-268).                                              *)
(***************************************************************************)
\* check_read(path, &mut flag): whether the path is readable; the caller's flag is set
\* when it is
check_read(readable, path) == readable[path]

\* utilization_init that tests is_good only
UtilizationInit_load_only(readable) ==
    LET is_good == \E p \in LoadPaths \ {GPU_FREQ_LOAD_PATH} : check_read(readable, p)
    IN [status |-> [p \in Paths |-> check_read(readable, p)],
        ret |-> IF ~is_good THEN "err_load" ELSE "ok"]

\* utilization_init: the flags it leaves and its Result
UtilizationInit(readable) ==
    LET is_good == \E p \in LoadPaths \ {GPU_FREQ_LOAD_PATH} : check_read(readable, p)
        freq_path_available ==
            \E p \in FreqPaths \cup {GPU_FREQ_LOAD_PATH} : check_read(readable, p)
    IN [status |-> [p \in Paths |-> check_read(readable, p)],
        ret |-> IF ~is_good THEN "err_load"
                ELSE IF ~freq_path_available THEN "err_freq"
                ELSE "ok"]

\* the Result of a collaborator of main whose code decides it
Results == {"ok", "err"}

\* initialize_gpu_config with the Result of utilization_init dropped
InitializeGpuConfig_ignore_util(readable, table_file, toml_file, r_table, r_toml, r_init) ==
    LET u == UtilizationInit(readable)
    IN IF ~table_file
       THEN [ret |-> "err", at |-> "freq_table_missing", util |-> u, warn |-> FALSE,
             loaded |-> FALSE]
       ELSE IF r_table = "err"
       THEN [ret |-> "err", at |-> "freq_table_read", util |-> u, warn |-> FALSE,
             loaded |-> FALSE]
       ELSE IF r_init = "err"
       THEN [ret |-> "err", at |-> "gpufreq_table_init", util |-> u,
             warn |-> ~toml_file \/ r_toml = "err",
             loaded |-> toml_file /\ r_toml = "ok"]
       ELSE [ret |-> "ok", at |-> "none", util |-> u,
             warn |-> ~toml_file \/ r_toml = "err",
             loaded |-> toml_file /\ r_toml = "ok"]

\* initialize_gpu_config: its Result, the step that failed, what utilization_init
\* returned and whether the strategy file's warning was logged
InitializeGpuConfig(readable, table_file, toml_file, r_table, r_toml, r_init) ==
    LET u == UtilizationInit(readable)
    IN IF u.ret # "ok"
       THEN [ret |-> "err", at |-> "utilization_init", util |-> u, warn |-> FALSE,
             loaded |-> FALSE]
       ELSE IF ~table_file
       THEN [ret |-> "err", at |-> "freq_table_missing", util |-> u, warn |-> FALSE,
             loaded |-> FALSE]
       ELSE IF r_table = "err"
       THEN [ret |-> "err", at |-> "freq_table_read", util |-> u, warn |-> FALSE,
             loaded |-> FALSE]
       ELSE IF r_init = "err"
       THEN [ret |-> "err", at |-> "gpufreq_table_init", util |-> u,
             warn |-> ~toml_file \/ r_toml = "err",
             loaded |-> toml_file /\ r_toml = "ok"]
       ELSE [ret |-> "ok", at |-> "none", util |-> u,
             warn |-> ~toml_file \/ r_toml = "err",
             loaded |-> toml_file /\ r_toml = "ok"]

\* the strategy parameters configure_strategy takes: margin, down threshold, sampling
\* interval, aggressive downscale.  The strategy GPU::new() starts with:
DefaultStrategy ==
    [margin |-> 10, down_threshold |-> 3, sampling_interval |-> "default",
     aggressive |-> FALSE]
\* the strategies a strategy file holds
FileStrategies ==
    {[margin |-> 20, down_threshold |-> 2, sampling_interval |-> "config",
      aggressive |-> FALSE]}
\* the arguments configure_gpu_strategy passes
HardCodedStrategy ==
    [margin |-> 0, down_threshold |-> 1, sampling_interval |-> "SAMPLING_INTERVAL_120HZ",
     aggressive |-> TRUE]

\* the strategies a monitor thread may leave in the shared GPU when it runs: the
\* config-reload monitor replaces the strategy by the file's, the game-mode monitor
\* sets the aggressive flag, the other two leave it alone
MonitorApplies(t, strategy) ==
    IF t = "CONF_THREAD" THEN FileStrategies
    ELSE IF t = "GAME_THREAD" THEN {[strategy EXCEPT !.aggressive = b] : b \in BOOLEAN}
    ELSE {}

\* the threads start_monitoring_threads spawns
GAME_THREAD == "GAME_THREAD"
CONF_THREAD == "CONF_THREAD"
FOREGROUND_APP_THREAD == "FOREGROUND_APP_THREAD"
LOG_LEVEL_MONITOR_THREAD == "LOG_LEVEL_MONITOR_THREAD"
MonitorThreads == {GAME_THREAD, CONF_THREAD, FOREGROUND_APP_THREAD, LOG_LEVEL_MONITOR_THREAD}

\* the files of the device: which pseudo-files are readable, whether the frequency
\* table file and the strategy file exist
Environments ==
    {e \in [readable : [Paths -> BOOLEAN], table_file : BOOLEAN, toml_file : BOOLEAN] :
        Cardinality({p \in Paths : e.readable[p]}) <= MaxAvailable}

InitStart ==
    /\ \E e \in Environments :
          boot = [pc |-> "init_logger", env |-> e, util |-> "none", at |-> "none",
                  warn |-> FALSE, threads |-> {}, ran |-> {}, loop |-> FALSE,
                  strategy |-> DefaultStrategy, applied |-> <<>>]
    /\ llm = NoBoot
    /\ gov = NoBoot
    /\ status = [p \in Paths |-> FALSE]
    /\ prev = <<0, 0, 0>>
    /\ pc = "idle"
    /\ hand = NoRead
    /\ cur = NoRead
    /\ rd = <<>>
    /\ ret = NoRet
    /\ InitFM

\* main up to init_logger()?
init_logger ==
    /\ boot.pc = "init_logger"
    /\ \E r \in Results :
          boot' = IF r = "err"
                  THEN [boot EXCEPT !.pc = "exit_err", !.at = "init_logger"]
                  ELSE [boot EXCEPT !.pc = "initialize_gpu_config"]
    /\ UNCHANGED <<fmvars, lmvars, llm, gov>>

\* GPU::new() and initialize_gpu_config(&mut gpu)?
initialize_gpu_config ==
    /\ boot.pc = "initialize_gpu_config"
    /\ \E r_table \in Results, r_toml \in Results, r_init \in Results :
          LET c == InitializeGpuConfig(boot.env.readable, boot.env.table_file,
                                       boot.env.toml_file, r_table, r_toml, r_init)
          IN \* a Result the call does not get to is drawn once
             /\ (c.at \in {"utilization_init", "freq_table_missing"}) =>
                    r_table = "ok" /\ r_toml = "ok" /\ r_init = "ok"
             /\ (c.at = "freq_table_read") => r_toml = "ok" /\ r_init = "ok"
             /\ ~boot.env.toml_file => r_toml = "ok"
             /\ status' = c.util.status
             /\ \E s \in IF c.loaded THEN FileStrategies ELSE {boot.strategy} :
                   boot' = [boot EXCEPT
                               !.pc = IF c.ret = "ok" THEN "start_monitoring_threads"
                                      ELSE "exit_err",
                               !.util = c.util.ret, !.at = c.at, !.warn = c.warn,
                               !.strategy = s,
                               !.applied = IF c.loaded THEN <<s>> ELSE @]
             /\ IF c.ret = "ok" \/ c.at = "gpufreq_table_init"
                THEN \E t \in ConfigLists : config_list' = t
                ELSE UNCHANGED config_list
    /\ UNCHANGED <<freq_volt, def_volt, cur_freq, cur_freq_idx, cur_volt, gpuv2,
                   v2_supported_freqs, exists, wcall, look>>
    /\ UNCHANGED <<prev, pc, hand, cur, rd, ret, llm, gov>>

start_monitoring_threads ==
    /\ boot.pc = "start_monitoring_threads"
    /\ boot' = [boot EXCEPT !.pc = "init_freq_and_volt", !.threads = MonitorThreads]
    /\ UNCHANGED <<fmvars, lmvars, llm, gov>>

\* main.rs:252-264: the operating point starts at index 0 with its voltage, and
\* configure_gpu_strategy sets the strategy
init_freq_and_volt ==
    /\ boot.pc = "init_freq_and_volt"
    /\ boot' = [boot EXCEPT !.pc = "adjust_gpufreq", !.strategy = HardCodedStrategy]
    /\ UNCHANGED <<config_list, freq_volt, def_volt, cur_freq_idx, gpuv2,
                   v2_supported_freqs, exists, wcall, look>>
    /\ \E overflow_checks \in BOOLEAN :
          /\ ~GetFreqByIndex(0, overflow_checks).failed
          /\ cur_freq' = GetFreqByIndex(0, overflow_checks).res
    /\ cur_volt' = GenCurVolt'
    /\ UNCHANGED <<lmvars, llm, gov>>

\* the governor loop runs
adjust_gpufreq ==
    /\ boot.pc = "adjust_gpufreq"
    /\ boot' = [boot EXCEPT !.loop = TRUE]
    /\ UNCHANGED <<fmvars, lmvars, llm, gov>>

\* a spawned monitor thread runs its closure
monitor_thread ==
    /\ \E t \in boot.threads :
          \/ boot' = [boot EXCEPT !.ran = @ \cup {t}]
          \/ \E s \in MonitorApplies(t, boot.strategy) :
                boot' = [boot EXCEPT !.ran = @ \cup {t}, !.strategy = s,
                                     !.applied = <<s>>]
    /\ UNCHANGED <<fmvars, lmvars, llm, gov>>

NextStart ==
    \/ init_logger
    \/ initialize_gpu_config
    \/ start_monitoring_threads
    \/ init_freq_and_volt
    \/ adjust_gpufreq
    \/ monitor_thread

SpecStart == InitStart /\ [][NextStart]_vars

(***************************************************************************)
(* Claims about startup, checked under SpecStart.                          *)
(***************************************************************************)
UtilFailed == boot.util \in {"err_load", "err_freq"}

\* C11: utilization_init returns an error whenever no load source is readable, and
\* whenever none of the three frequency-report paths (primary and debug
\* current-frequency files, v1 frequency-dump file) is readable.
C11_InitFailsOnExhaustion ==
    boot.util # "none" =>
        /\ (\A p \in LoadPaths : ~boot.env.readable[p]) => UtilFailed
        /\ (\A p \in FreqPaths \cup {GPU_FREQ_LOAD_PATH} : ~boot.env.readable[p])
               => UtilFailed

C11_Witness ==
    /\ boot.util = "err_freq"
    /\ \E p \in LoadPaths : boot.env.readable[p]
    /\ \A p \in FreqPaths \cup {GPU_FREQ_LOAD_PATH} : ~boot.env.readable[p]

\* C12: when utilization_init fails, main returns an error before any monitor thread
\* is spawned and before the governor loop starts; no monitor thread ever runs.
C12_NoMonitorAfterExhaustion ==
    UtilFailed =>
        /\ boot.pc = "exit_err"
        /\ boot.threads = {}
        /\ boot.ran = {}
        /\ ~boot.loop

C12_Witness ==
    /\ UtilFailed
    /\ boot.pc = "exit_err"
    /\ boot.at = "utilization_init"

\* C13: startup aborts in initialize_gpu_config only when the load-sensing or the
\* frequency-reporting chain is exhausted; a missing frequency-table file or strategy
\* file never aborts it (a collaborator's own error aside).
C13_MissingConfigNeverAborts ==
    (boot.pc = "exit_err"
        /\ boot.at \notin {"init_logger", "freq_table_read", "gpufreq_table_init"})
        => UtilFailed

\* a missing strategy file alone never aborts startup, and its warning is logged
C13_StrategyMissingWarnsOnly ==
    (boot.util = "ok" /\ boot.env.table_file /\ ~boot.env.toml_file
        /\ boot.at \notin {"freq_table_read", "gpufreq_table_init"})
        => boot.pc # "exit_err" /\ boot.warn

(***************************************************************************)
(* Further claims about the load monitor, checked under SpecLoad.          *)
(***************************************************************************)
\* a v2 path the call read without obtaining a frequency from it
V2PathFailed(g, p, s) == \E k \in 1..Len(g.rd) : g.rd[k] = p /\ (g.kind = "err" \/ g.src # s)

\* the paths of a read sequence come in the order primary, debug variant, v1 dump
InFreqOrder(rds) ==
    LET rank(p) == IF p = GPU_CURRENT_FREQ_PATH THEN 1
                   ELSE IF p = GPU_DEBUG_CURRENT_FREQ_PATH THEN 2 ELSE 3
    IN \A j, k \in 1..Len(rds) : j < k => rank(rds[j]) < rank(rds[k])

\* C24 as stated: on a v2 driver get_gpu_current_freq tries the primary file, the
\* debug variant and the v1 dump in that order and returns the first frequency
\* obtained; every v2 path that fails to yield a frequency is marked disabled.
C24_FailedPathDisabled ==
    \A r1, r2 \in Reads(V2FreqBufs), r3 \in Reads(V1Files) :
        LET g == GetGpuCurrentFreq(FALSE, r1, r2, r3)
        IN /\ InFreqOrder(g.rd)
           /\ V2PathFailed(g, GPU_CURRENT_FREQ_PATH, 10) => ~g.st[GPU_CURRENT_FREQ_PATH]
           /\ V2PathFailed(g, GPU_DEBUG_CURRENT_FREQ_PATH, 11)
                  => ~g.st[GPU_DEBUG_CURRENT_FREQ_PATH]

\* the second whitespace token of a buffer read, when it is an integer
SecondToken(r) == r.ok /\ Len(r.buf) >= 2 /\ r.buf[2].num

\* C24 amended: on a v2 driver the paths are tried in the order primary, debug
\* variant, v1 dump, and the first frequency obtained (second token of the first two)
\* is returned; a path whose read fails is marked disabled, a path whose content has
\* no integer second token keeps its flag; the v1 procedure is reached only when
\* each v2 path was disabled, failed to read or had no integer second token.
C24_FreqOrderV2 ==
    \A r1, r2 \in Reads(V2FreqBufs), r3 \in Reads(V1Files) :
        LET g == GetGpuCurrentFreq(FALSE, r1, r2, r3)
            p1 == GPU_CURRENT_FREQ_PATH
            p2 == GPU_DEBUG_CURRENT_FREQ_PATH
            tried2 == status[p2] /\ ~(status[p1] /\ SecondToken(r1))
        IN /\ InFreqOrder(g.rd)
           /\ (status[p1] /\ SecondToken(r1)) =>
                  g.kind = "ok" /\ g.src = 10 /\ g.v = r1.buf[2].v /\ g.rd = <<p1>>
           /\ (tried2 /\ SecondToken(r2)) =>
                  g.kind = "ok" /\ g.src = 11 /\ g.v = r2.buf[2].v
           /\ g.st[p1] = (status[p1] /\ r1.ok)
           /\ g.st[p2] = (status[p2] /\ (tried2 => r2.ok))
           /\ g.src = 12 => /\ ~status[p1] \/ ~SecondToken(r1)
                            /\ ~status[p2] \/ ~SecondToken(r2)

\* a v2 call that went through both v2 files to the v1 dump and got its frequency
C24_Witness ==
    /\ pc = "idle"
    /\ ret.fn = "get_gpu_current_freq" /\ ret.kind = "ok" /\ ret.src = 12
    /\ rd = <<GPU_CURRENT_FREQ_PATH, GPU_DEBUG_CURRENT_FREQ_PATH, GPU_FREQ_LOAD_PATH>>

\* C25: the kernel-debug GED and kernel GED idle variants return 100 minus the 3rd
\* whitespace token, and the kernel GED load source returns the 3rd token itself.
C25_KernelGedLoadIsToken ==
    (cur.out \in {"value", "zero"} /\ cur.src \in {5, 6, 7}) =>
        cur.val = IF cur.src = 7 THEN cur.tok[1] ELSE 100 - cur.tok[1]

\* the two idle variants return 100 minus the 3rd token
C25_IdleVariants ==
    (cur.out \in {"value", "zero"} /\ cur.src \in {5, 6}) => cur.val = 100 - cur.tok[1]

\* C26: every value get_gpu_load returns is a percentage in 0..100, whatever the
\* availability flags (all sources disabled included) and the files' contents.
C26_LoadIsPercentage ==
    (pc = "idle" /\ ret.fn = "get_gpu_load" /\ ret.kind = "ok") =>
        0 <= ret.val /\ ret.val <= 100

\* C29: a step of the precise source that reads three parseable fields leaves them as
\* the retained triplet, whether the sample is accepted, falls through as zero or is
\* invalid; every other step of a call leaves the retained triplet unchanged.
C29_PrevIsLastTriplet ==
    [][IF pc = "debug_dvfs_load_func" /\ cur'.src = 1
             /\ cur'.out \in {"value", "zero", "invalid"}
       THEN prev' = cur'.tok /\ Len(cur'.tok) = 3
       ELSE prev' = prev]_vars

\* an invalid sample (total <= 0) after which the retained triplet is the one read
C29_Witness ==
    /\ pc = "gpufreq_load"
    /\ cur.src = 1 /\ cur.out = "invalid"
    /\ prev = cur.tok /\ prev = <<100, 50, 0>>

(***************************************************************************)
(* Further claims about write_freq, checked under SpecWrite.               *)
(***************************************************************************)
\* the payloads the control files accept: "<freq> <volt>", "<freq>", "-1", "0", "0 0"
\* for the frequencies and the voltage the manager holds
AcceptedPayloads ==
    LET fs == {cur_freq} \cup {v2_supported_freqs[k] : k \in 1..Len(v2_supported_freqs)}
    IN {"-1", "0", "0 0"}
           \cup {ToString(f) : f \in fs}
           \cup {ToString(f) \o " " \o ToString(cur_volt) : f \in fs}

\* C28: on a v1 driver no write of a write_freq call has the payload "-1", and on
\* either generation every payload written is one of "<freq> <volt>", "<freq>", "-1",
\* "0", "0 0".
C28_PayloadsAndNoMinusOneOnV1 ==
    \A k \in 1..Len(wcall.log) :
        /\ wcall.log[k].data \in AcceptedPayloads
        /\ ~gpuv2 => wcall.log[k].data # "-1"

\* a v1 call in idle mode that wrote "0 0" and "0"
C28_Witness ==
    /\ ~gpuv2 /\ wcall.called /\ wcall.mode = "idle"
    /\ Len(wcall.log) = 2
    /\ wcall.log[1].data = "0 0" /\ wcall.log[2].data = "0"

(***************************************************************************)
(* Further claims about startup, checked under SpecStart.                  *)
(***************************************************************************)
\* C21: a strategy loaded from the strategy file at startup, or applied by the
\* config-reload or game-mode monitor before the governor loop starts, is the strategy
\* in effect when adjust_gpufreq starts.
C21_LoadedStrategyInEffect ==
    (boot.pc = "adjust_gpufreq" /\ boot.applied # <<>>) => boot.strategy = boot.applied[1]

\* C27: utilization_init succeeds whenever a source of the load chain is readable and
\* a frequency-report path is readable, a device whose only readable load source is
\* the gpu_loading file included.
C27_InitSucceedsOnAnySource ==
    (/\ boot.util # "none"
     /\ \E p \in LoadPaths : boot.env.readable[p]
     /\ \E p \in FreqPaths \cup {GPU_FREQ_LOAD_PATH} : boot.env.readable[p])
        => boot.util = "ok"

\* utilization_init succeeds when a load path other than the gpu_loading file and a
\* frequency-report path are readable
C27_InitSucceedsOnOtherSources ==
    (/\ boot.util # "none"
     /\ \E p \in LoadPaths \ {GPU_FREQ_LOAD_PATH} : boot.env.readable[p]
     /\ \E p \in FreqPaths \cup {GPU_FREQ_LOAD_PATH} : boot.env.readable[p])
        => boot.util = "ok"

(***************************************************************************)
(* The log level manager (utils/log_level_manager.rs): the stored level,    *)
(* the log crate's process-wide max level, the registered callbacks, and    *)
(* the threads that call update_level: the log-level monitor thread, which  *)
(* runs start_monitoring, and another thread that holds the manager         *)
(* (get_log_level_manager hands the same Arc to every caller).              *)
(***************************************************************************)
Levels == {"Debug", "Info", "Warn", "Error"}
LogThreads == {LOG_LEVEL_MONITOR_THREAD, "OTHER_THREAD"}
\* the closures passed to add_callback: the one LOG_LEVEL_MANAGER passes when it is
\* made, and one of another holder of the manager
Callbacks == {"log_rotation", "added"}
\* log::max_level() when the manager is made: any LevelFilter, as the logger's
\* initialisation left it (Off when none ran)
MaxLevels == Levels \cup {"Off", "Trace"}
\* the trimmed, lowercased contents of the log level file
LevelStrings == {"debug", "info", "warn", "error", "verbose"}

\* log_level_manager.rs:36-60: the level of the file, Info when the file is missing,
\* unreadable or holds another word; always Ok
read_log_level_config(file_exists, read_ok, level_str) ==
    IF ~file_exists THEN "Info"
    ELSE IF ~read_ok THEN "Info"
    ELSE IF level_str = "debug" THEN "Debug"
    ELSE IF level_str = "info" THEN "Info"
    ELSE IF level_str = "warn" THEN "Warn"
    ELSE IF level_str = "error" THEN "Error"
    ELSE "Info"


\* the call update_level(level) of thread t, which continues at ret when it returns
CallUpdateLevel(t, level, ret_pc) ==
    llm' = [llm EXCEPT !.th[t] = [pc |-> "update_level", new_level |-> level,
                                  ret |-> ret_pc, changed |-> FALSE,
                                  invoked |-> [c \in Callbacks |-> 0]]]

InitLog ==
    /\ \E max \in MaxLevels :
       llm = [current_level |-> "Info", max_level |-> max,
              \* the Vec of callbacks, in the order of their registration
              callbacks |-> <<"log_rotation">>,
              \* a thread that uses the manager: its position, the argument and the
              \* return position of its update_level call, whether the call replaced
              \* the stored level, and how often it has called each callback
              th |-> [t \in LogThreads |->
                        [pc |-> IF t = LOG_LEVEL_MONITOR_THREAD THEN "start_monitoring"
                                ELSE "idle",
                         new_level |-> "Info", ret |-> "none", changed |-> FALSE,
                         invoked |-> [c \in Callbacks |-> 0]]]]
    /\ boot = NoBoot
    /\ gov = NoBoot
    /\ status = [p \in Paths |-> FALSE]
    /\ prev = <<0, 0, 0>>
    /\ pc = "idle"
    /\ hand = NoRead
    /\ cur = NoRead
    /\ rd = <<>>
    /\ ret = NoRet
    /\ InitFM

\* log_level_manager.rs:96-115: the initial level is read and applied
start_monitoring ==
    /\ llm.th[LOG_LEVEL_MONITOR_THREAD].pc = "start_monitoring"
    /\ \E file_exists \in BOOLEAN, read_ok \in BOOLEAN, level_str \in LevelStrings :
          CallUpdateLevel(LOG_LEVEL_MONITOR_THREAD,
                          read_log_level_config(file_exists, read_ok, level_str),
                          "InotifyWatcher_new")
    /\ UNCHANGED <<fmvars, lmvars, boot, gov>>

\* log_level_manager.rs:69-72: under the current_level lock the stored level is compared
\* with the new one and replaced when they differ; the lock is released before the
\* rest of the call.  With the level already stored the call returns.
update_level_store(t) ==
    /\ llm.th[t].pc = "update_level"
    /\ IF llm.current_level # llm.th[t].new_level
       THEN llm' = [llm EXCEPT !.current_level = llm.th[t].new_level,
                               !.th[t].changed = TRUE,
                               !.th[t].pc = "set_max_level"]
       ELSE llm' = [llm EXCEPT !.th[t].pc = llm.th[t].ret]
    /\ UNCHANGED <<fmvars, lmvars, boot, gov>>

\* log_level_manager.rs:75: log::set_max_level(new_level), outside the lock
update_level_set_max(t) ==
    /\ llm.th[t].pc = "set_max_level"
    /\ llm' = [llm EXCEPT !.max_level = llm.th[t].new_level, !.th[t].pc = "callbacks"]
    /\ UNCHANGED <<fmvars, lmvars, boot, gov>>

\* log_level_manager.rs:79-82: under the callbacks lock every element of the Vec is
\* called with the new level, and the call returns
update_level_callbacks(t) ==
    /\ llm.th[t].pc = "callbacks"
    /\ llm' = [llm EXCEPT
                 !.th[t].invoked =
                     [c \in Callbacks |->
                         @[c] + Cardinality({k \in 1..Len(llm.callbacks) :
                                                llm.callbacks[k] = c})],
                 !.th[t].pc = llm.th[t].ret]
    /\ UNCHANGED <<fmvars, lmvars, boot, gov>>

\* log_level_manager.rs:87-93: under the callbacks lock a holder of the manager pushes
\* a callback, whether or not the Vec holds the same one already
add_callback ==
    /\ Len(llm.callbacks) < MaxCallbacks
    /\ \E c \in Callbacks : llm' = [llm EXCEPT !.callbacks = Append(@, c)]
    /\ UNCHANGED <<fmvars, lmvars, boot, gov>>

\* log_level_manager.rs:118 and main.rs:109-113: InotifyWatcher::new()?: an Err leaves
\* start_monitoring, the thread's closure logs it and the thread ends
InotifyWatcher_new ==
    /\ llm.th[LOG_LEVEL_MONITOR_THREAD].pc = "InotifyWatcher_new"
    /\ \E r \in Results :
          llm' = [llm EXCEPT !.th[LOG_LEVEL_MONITOR_THREAD].pc =
                                 IF r = "ok" THEN "inotify_add" ELSE "terminated"]
    /\ UNCHANGED <<fmvars, lmvars, boot, gov>>

\* log_level_manager.rs:119 and main.rs:109-113: inotify.add(LOG_LEVEL_PATH, ..)?
inotify_add ==
    /\ llm.th[LOG_LEVEL_MONITOR_THREAD].pc = "inotify_add"
    /\ \E r \in Results :
          llm' = [llm EXCEPT !.th[LOG_LEVEL_MONITOR_THREAD].pc =
                                 IF r = "ok" THEN "wait_and_handle" ELSE "terminated"]
    /\ UNCHANGED <<fmvars, lmvars, boot, gov>>

\* log_level_manager.rs:122-144: one round of the loop: an error of wait_and_handle
\* sleeps one second, a missing file goes back to waiting, otherwise the level of the
\* file is applied
wait_and_handle ==
    /\ llm.th[LOG_LEVEL_MONITOR_THREAD].pc = "wait_and_handle"
    /\ \E r \in Results, file_exists \in BOOLEAN, read_ok \in BOOLEAN,
          level_str \in LevelStrings :
          IF r = "err"
          THEN llm' = [llm EXCEPT !.th[LOG_LEVEL_MONITOR_THREAD].pc = "sleep"]
          ELSE IF ~file_exists
          THEN UNCHANGED llm
          ELSE CallUpdateLevel(LOG_LEVEL_MONITOR_THREAD,
                               read_log_level_config(TRUE, read_ok, level_str),
                               "wait_and_handle")
    /\ UNCHANGED <<fmvars, lmvars, boot, gov>>

\* log_level_manager.rs:126-127: thread::sleep(1 s); continue
backoff ==
    /\ llm.th[LOG_LEVEL_MONITOR_THREAD].pc = "sleep"
    /\ llm' = [llm EXCEPT !.th[LOG_LEVEL_MONITOR_THREAD].pc = "wait_and_handle"]
    /\ UNCHANGED <<fmvars, lmvars, boot, gov>>

\* another holder of the manager calls update_level
other_update_level ==
    /\ llm.th["OTHER_THREAD"].pc = "idle"
    /\ \E level \in Levels : CallUpdateLevel("OTHER_THREAD", level, "idle")
    /\ UNCHANGED <<fmvars, lmvars, boot, gov>>

NextLog ==
    \/ start_monitoring
    \/ \E t \in LogThreads : update_level_store(t)
    \/ \E t \in LogThreads : update_level_set_max(t)
    \/ \E t \in LogThreads : update_level_callbacks(t)
    \/ add_callback
    \/ InotifyWatcher_new
    \/ inotify_add
    \/ wait_and_handle
    \/ backoff
    \/ other_update_level

SpecLog == InitLog /\ [][NextLog]_vars

InUpdateLevel(t) == llm.th[t].pc \in {"update_level", "set_max_level", "callbacks"}
\* how often the Vec of callbacks holds c
Registrations(c) == Cardinality({k \in 1..Len(llm.callbacks) : llm.callbacks[k] = c})

\* C23: the log-level monitor thread never terminates once started: every error of the
\* notification layer, the creation of the watcher and the adding of the watch
\* included, leads to a retry.
C23_MonitorNeverTerminates ==
    llm.th[LOG_LEVEL_MONITOR_THREAD].pc # "terminated"

\* an error of wait_and_handle is followed by the one-second sleep and another wait
C23_WaitErrorRetries ==
    [][llm.th[LOG_LEVEL_MONITOR_THREAD].pc = "wait_and_handle"
          => llm'.th[LOG_LEVEL_MONITOR_THREAD].pc \in
                {"wait_and_handle", "sleep", "update_level"}]_vars

\* C30: once every update_level call has returned, the process-wide max level equals
\* the stored current_level (stated for the states where the last call of some thread
\* replaced the stored level, so that the max level has been set by update_level).
C30_MaxLevelIsCurrentLevel ==
    (/\ \A t \in LogThreads : ~InUpdateLevel(t)
     /\ \E t \in LogThreads : llm.th[t].changed)
        => llm.max_level = llm.current_level

\* C30, the part about callbacks: a call with the level already stored changes nothing
\* and calls no callback; a call that replaces the level calls every element of the
\* Vec of callbacks once, so a callback as often as it has been pushed when the call
\* reaches the callbacks.
C30_CallbacksOncePerRegistration ==
    [][\A t \in LogThreads :
          /\ (update_level_store(t) /\ llm.current_level = llm.th[t].new_level)
                => /\ llm'.current_level = llm.current_level
                   /\ llm'.max_level = llm.max_level
                   /\ ~InUpdateLevel(t)'
                   /\ ~llm'.th[t].changed
                   /\ \A c \in Callbacks : llm'.th[t].invoked[c] = 0
          /\ (update_level_callbacks(t))
                => /\ llm.th[t].changed
                   /\ \A c \in Callbacks : llm'.th[t].invoked[c] = Registrations(c)]_vars


(***************************************************************************)
(* The governor loop (GPU::adjust_gpufreq), by its decision rule: per tick  *)
(* a load sample moves the table index.  The strategy is the one            *)
(* configure_strategy set; set_load_stability_threshold(1) (main.rs:128)    *)
(* makes one sample enough to agree on a direction, and adaptive sampling   *)
(* is off (main.rs:129-133).                                                *)
(***************************************************************************)
\* the last index of the frequency table
MaxIdx == 3
\* the largest down threshold of a strategy
MaxDownThreshold == 3
\* load samples, on both sides of the thresholds 100 - margin
Samples == {0, 79, 80, 99, 100}
\* the strategies the loop may run with: configure_gpu_strategy's and a file's
GovStrategies ==
    {[margin |-> mg, down_threshold |-> n, aggressive |-> a] :
        mg \in {HardCodedStrategy.margin} \cup {f.margin : f \in FileStrategies},
        n \in 1..MaxDownThreshold, a \in BOOLEAN}

\* one decision: the new index and the new count of below-threshold samples
GovernorTick_keep_count(g, load) ==
    IF load >= 100 - g.margin
    THEN [idx |-> (IF g.idx < MaxIdx THEN g.idx + 1 ELSE MaxIdx), down_count |-> g.down_count, moved |-> "up"]
    ELSE IF g.aggressive \/ g.down_count + 1 >= g.down_threshold
    THEN [idx |-> Max(g.idx - 1, 0), down_count |-> 0, moved |-> "down"]
    ELSE [idx |-> g.idx, down_count |-> g.down_count + 1, moved |-> "hold"]
GovernorTick(g, load) ==
    IF load >= 100 - g.margin
    THEN [idx |-> (IF g.idx < MaxIdx THEN g.idx + 1 ELSE MaxIdx), down_count |-> 0, moved |-> "up"]
    ELSE IF g.aggressive \/ g.down_count + 1 >= g.down_threshold
    THEN [idx |-> Max(g.idx - 1, 0), down_count |-> 0, moved |-> "down"]
    ELSE [idx |-> g.idx, down_count |-> g.down_count + 1, moved |-> "hold"]

InitGovernor ==
    /\ \E st \in GovStrategies, i \in 0..MaxIdx :
          gov = [pc |-> "adjust_gpufreq", margin |-> st.margin,
                 down_threshold |-> st.down_threshold, aggressive |-> st.aggressive,
                 idx |-> i, down_count |-> 0, load |-> 0, moved |-> "none",
                 hist |-> <<>>]
    /\ boot = NoBoot
    /\ llm = NoBoot
    /\ status = [p \in Paths |-> FALSE]
    /\ prev = <<0, 0, 0>>
    /\ pc = "idle"
    /\ hand = NoRead
    /\ cur = NoRead
    /\ rd = <<>>
    /\ ret = NoRet
    /\ InitFM

\* one tick of the loop with the sample it read
governor_tick ==
    /\ gov.pc = "adjust_gpufreq"
    /\ \E load \in Samples :
          LET d == GovernorTick(gov, load)
              below == load < 100 - gov.margin
          IN \* hist keeps the last MaxDownThreshold samples as below-threshold flags,
             \* oldest first
             gov' = [gov EXCEPT !.idx = d.idx, !.down_count = d.down_count,
                                !.moved = d.moved, !.load = load,
                                !.hist = IF Len(@) < MaxDownThreshold
                                         THEN Append(@, below)
                                         ELSE Append(Tail(@), below)]
    /\ UNCHANGED <<fmvars, lmvars, boot, llm>>

\* the game-mode monitor sets the aggressive flag
set_aggressive ==
    /\ gov.pc = "adjust_gpufreq"
    /\ \E a \in BOOLEAN : gov' = [gov EXCEPT !.aggressive = a]
    /\ UNCHANGED <<fmvars, lmvars, boot, llm>>

NextGovernor == governor_tick \/ set_aggressive

SpecGovernor == InitGovernor /\ [][NextGovernor]_vars

\* the last n samples were all below the threshold
LastBelow(hist, n) ==
    /\ Len(hist) >= n
    /\ \A k \in 1..Len(hist) : k > Len(hist) - n => hist[k]

\* C22: a sample at or above 100 - margin steps the index up by one (to the end of the
\* table at most); with aggressive-downscale set a single below-threshold sample steps
\* it down by one; without it the index steps down by one only when the last
\* down-threshold samples were all below the threshold, and does not move otherwise.
C22_Hysteresis ==
    [][governor_tick =>
         LET below == gov'.load < 100 - gov.margin
         IN /\ ~below => gov'.idx = (IF gov.idx < MaxIdx THEN gov.idx + 1 ELSE MaxIdx)
            /\ (below /\ gov.aggressive) => gov'.idx = Max(gov.idx - 1, 0)
            /\ (below /\ ~gov.aggressive) =>
                  /\ gov'.idx \in {gov.idx, gov.idx - 1}
                  /\ gov'.moved = "down" => LastBelow(gov'.hist, gov.down_threshold)
                  /\ gov'.idx = gov.idx - 1 => gov'.moved = "down"]_vars

\* a decrement after three below-threshold samples without the aggressive flag
C22_Witness ==
    /\ gov.pc = "adjust_gpufreq"
    /\ ~gov.aggressive
    /\ gov.down_threshold = 3
    /\ gov.moved = "down"
    /\ gov.idx = 1
    /\ gov.hist = <<TRUE, TRUE, TRUE>>

====
